---- MODULE Spec2Model ----
(***************************************************************************)
(* Universal Dataset Comparison Engine: the reconciliation core            *)
(* (compare/hash_comparator.py, compare/cell_comparator.py,                *)
(* compare/value_comparator.py), the schema stage                          *)
(* (normalize/schema_normalizer.py, compare/schema_comparator.py), the     *)
(* history file (report/history_manager.py) and the /compare job of        *)
(* main.py.                                                                *)
(*                                                                         *)
(* Text is a sequence of one-character strings, so that str(), "|".join,   *)
(* sorted(), strip() and lower() are computed and not assumed.  A cell     *)
(* value is a tagged record: [t |-> "null"], [t |-> "bool", v |-> b],       *)
(* [t |-> "int", v |-> n] or [t |-> "str", v |-> text].  A row (a Python    *)
(* dict, which keeps insertion order) is a sequence of <<column, value>>   *)
(* pairs with distinct columns.                                            *)
(***************************************************************************)
EXTENDS Integers, Sequences, FiniteSets, TLC

VARIABLES
    pc,        \* position of the running operation
    srcA,      \* dataset A as its adapter yields it: [cols, rows]
    srcB,      \* dataset B
    pk,        \* pk_cols / request.primary_key: a sequence of columns, or None
    chunkA,    \* chunk_size used when iterating A
    chunkB,    \* chunk_size used when iterating B
    scan,      \* the state of _prepare_pk_and_hash's loop over the chunks
    maps,      \* the finished (mapping, total_rows) of A and of B
    result,    \* what compare_datasets returned
    row,       \* the row under test of _make_row_hash
    digest,    \* its digest as first computed
    opts,      \* request.options["check_nullability"]
    log,       \* the job's reads of the two sources, in order
    schema,    \* what the schema stage produced
    cells,     \* what compare_cells returned (cell_report)
    enrich,    \* the coercion enrichment's cell_level_mismatches
    outcome,   \* how the job ended, and what it returned
    disk,      \* the reports directory: report written, history saved
    call,      \* one call of compare_values: its arguments and what it returned
    cellrun,   \* one run of compare_cells: its argument and its locals
    migration, \* one schema comparison: the two columns, normalized, findings
    hist       \* history.json, the report files and two save_history calls

vars == <<pc, srcA, srcB, pk, chunkA, chunkB, scan, maps, result, row, digest,
          opts, log, schema, cells, enrich, outcome, disk,
          call, cellrun, migration, hist>>

None == [t |-> "none"]
\* A Python list where None is also possible (pk_cols).
ListV(l) == [t |-> "list", v |-> l]

-----------------------------------------------------------------------------
(* Text *)

\* The characters the model uses, in code-point order.
Alphabet ==
    <<" ", "#", "(", ")", ",", "-", ".",
      "0", "1", "2", "3", "4", "5", "6", "7", "8", "9",
      "A", "B", "C", "D", "E", "F", "G", "H", "I", "J", "K", "L", "M",
      "N", "O", "P", "Q", "R", "S", "T", "U", "V", "W", "X", "Y", "Z",
      "_",
      "a", "b", "c", "d", "e", "f", "g", "h", "i", "j", "k", "l", "m",
      "n", "o", "p", "q", "r", "s", "t", "u", "v", "w", "x", "y", "z",
      "|">>

Ord(c) == CHOOSE i \in 1..Len(Alphabet) : Alphabet[i] = c

\* Python's < on str: lexicographic by code point.
RECURSIVE StrLess(_, _)
StrLess(s, u) ==
    IF u = <<>> THEN FALSE
    ELSE IF s = <<>> THEN TRUE
    ELSE IF Head(s) = Head(u) THEN StrLess(Tail(s), Tail(u))
    ELSE Ord(Head(s)) < Ord(Head(u))

\* sorted(S) for a set of texts.
RECURSIVE Sorted(_)
Sorted(S) ==
    IF S = {} THEN <<>>
    ELSE LET m == CHOOSE x \in S : \A y \in S : x = y \/ StrLess(x, y)
         IN  <<m>> \o Sorted(S \ {m})

Digits == <<"0", "1", "2", "3", "4", "5", "6", "7", "8", "9">>

\* str(n) for an int.
RECURSIVE IntToStr(_)
IntToStr(n) ==
    IF n < 0 THEN <<"-">> \o IntToStr(0 - n)
    ELSE IF n < 10 THEN <<Digits[n + 1]>>
    ELSE IntToStr(n \div 10) \o <<Digits[(n % 10) + 1]>>

\* sep.join(parts)
RECURSIVE Join(_, _)
Join(sep, parts) ==
    IF parts = <<>> THEN <<>>
    ELSE IF Len(parts) = 1 THEN parts[1]
    ELSE parts[1] \o sep \o Join(sep, Tail(parts))

Range(f) == {f[i] : i \in DOMAIN f}

-----------------------------------------------------------------------------
(* Cell values and rows *)

Null == [t |-> "null"]
IntV(n) == [t |-> "int", v |-> n]
StrV(s) == [t |-> "str", v |-> s]
BoolV(b) == [t |-> "bool", v |-> b]

\* str(v) for a non-null cell value.
PyStr(v) ==
    CASE v.t = "int" -> IntToStr(v.v)
      [] v.t = "str" -> v.v
      [] v.t = "bool" -> IF v.v THEN <<"T", "r", "u", "e">>
                                ELSE <<"F", "a", "l", "s", "e">>

\* The null sentinel of hash_comparator.py and cell_comparator.py.
NULL == <<"N", "U", "L", "L">>

\* Lines 14-17 with the empty text for a null.
CellTextEmpty(v) == IF v.t = "null" THEN <<>> ELSE PyStr(v)

\* `str(v) if v is not None else "NULL"`
CellText(v) == IF v.t = "null" THEN NULL ELSE PyStr(v)

RowKeys(r) == [i \in DOMAIN r |-> r[i][1]]
HasCol(r, c) == \E i \in DOMAIN r : r[i][1] = c
\* r[c]; the callers below only index columns the row has.
RowAt(r, c) == r[CHOOSE i \in DOMAIN r : r[i][1] = c][2]
\* r.get(c)
RowGet(r, c) == IF HasCol(r, c) THEN RowAt(r, c) ELSE Null

-----------------------------------------------------------------------------
(* compare/hash_comparator.py *)

\* hashlib.sha256(text).hexdigest(), as a collision-free function of its
\* input whose output is not the input.
Sha256(text) == <<"#">> \o text

\* The loop of _make_row_hash without its sorted(): columns in dict order.
HashUnsorted(r) ==
    Sha256(Join(<<"|">>, [i \in DOMAIN r |-> CellText(r[i][2])]))

make_row_hash(r) ==
    LET ks == Sorted(Range(RowKeys(r)))
        vals == [i \in DOMAIN ks |-> CellText(RowAt(r, ks[i]))]
    IN  Sha256(Join(<<"|">>, vals))

\* "|".join([str(row[c]) if row[c] is not None else "NULL" for c in pk_cols])
pk_val(r, pk_cols) ==
    Join(<<"|">>,
         [i \in DOMAIN pk_cols.v |-> CellText(RowAt(r, pk_cols.v[i]))])

-----------------------------------------------------------------------------
(* Datasets: what an adapter's get_data_iterator yields *)

\* df.to_dicts(): each row as a dict in the frame's column order.
to_dicts(df) ==
    [i \in DOMAIN df.rows |->
        [j \in DOMAIN df.cols |-> <<df.cols[j], df.rows[i][j]>>]]

Min(a, b) == IF a < b THEN a ELSE b
Take(s, n) == SubSeq(s, 1, Min(n, Len(s)))

\* iter_slices(n_rows = chunk_size): consecutive frames of at most
\* chunk_size rows; an empty dataset yields no frame.
iter_slices(src, chunk_size) ==
    LET n == Len(src.rows)
        k == (n + chunk_size - 1) \div chunk_size
    IN  [c \in 1..k |->
            [cols |-> src.cols,
             rows |-> SubSeq(src.rows, (c - 1) * chunk_size + 1,
                             Min(c * chunk_size, n))]]

-----------------------------------------------------------------------------
(* _candidate_pk_detection *)

MaxSample == 10000

\* sub[col].n_unique(): a null counts as one value.
n_unique(sub, j) == Cardinality({sub[i][j] : i \in DOMAIN sub})

\* Line 39 with the second column left out of the select.
n_unique_first(sub, j1, j2) == n_unique(sub, j1)

n_unique2(sub, j1, j2) ==
    Cardinality({<<sub[i][j1], sub[i][j2]>> : i \in DOMAIN sub})

candidate_pk_detection(df) ==
    LET n == Min(Len(df.rows), MaxSample)
        sub == SubSeq(df.rows, 1, n)
        nc == Len(df.cols)
        singles == {j \in 1..nc : n_unique(sub, j) = n}
        pairs == {p \in (1..nc) \X (1..nc) :
                    p[1] < p[2] /\ n_unique2(sub, p[1], p[2]) = n}
    IN  IF singles # {}
        THEN ListV(<<df.cols[CHOOSE j \in singles : \A k \in singles : j <= k]>>)
        ELSE IF pairs # {}
        THEN LET p == CHOOSE q \in pairs : \A r \in pairs :
                        q[1] < r[1] \/ (q[1] = r[1] /\ q[2] <= r[2])
             IN  ListV(<<df.cols[p[1]], df.cols[p[2]]>>)
        ELSE None

-----------------------------------------------------------------------------
(* _prepare_pk_and_hash *)

\* A dict that keeps the first value written for a key.
PutFirst(mapping, k, v) == mapping @@ (k :> v)

\* mapping[k] = v
Put(mapping, k, v) == (k :> v) @@ mapping

EmptyMap == [k \in {} |-> <<>>]

\* The loop's variables before the first chunk.
ScanStart(pk_cols) ==
    [mapping |-> EmptyMap, total_rows |-> 0, pk_cols |-> pk_cols]

\* `for row in df.to_dicts(): mapping[key(row)] = rh; total_rows += 1`,
\* keyed by the surrogate (the row hash) when pk_cols is None.
RECURSIVE RowLoop(_, _, _)
RowLoop(st, rows, pk_cols) ==
    IF rows = <<>> THEN st
    ELSE LET r == Head(rows)
             rh == make_row_hash(r)
             k == IF pk_cols = None THEN rh ELSE pk_val(r, pk_cols)
         IN  RowLoop([st EXCEPT !.mapping = Put(st.mapping, k, rh),
                                !.total_rows = st.total_rows + 1],
                     Tail(rows), pk_cols)

\* The loop body with `mapping` made anew for each chunk.
ChunkStepFresh(st, df) ==
    RowLoop([st EXCEPT !.mapping = EmptyMap], to_dicts(df), st.pk_cols)

\* One iteration of `for df in adapter.get_data_iterator(...)`.
ChunkStep(st, df) ==
    LET pk1 == IF st.pk_cols = None THEN candidate_pk_detection(df)
               ELSE st.pk_cols
    IN  RowLoop([st EXCEPT !.pk_cols = pk1], to_dicts(df), pk1)

RECURSIVE ChunkLoop(_, _)
ChunkLoop(st, chunks) ==
    IF chunks = <<>> THEN st
    ELSE ChunkLoop(ChunkStep(st, Head(chunks)), Tail(chunks))

\* _prepare_pk_and_hash(adapter, pk_cols, chunk_size) -> (mapping, row_count)
prepare_pk_and_hash(src, pk_cols, chunk_size) ==
    LET st == ChunkLoop(ScanStart(pk_cols), iter_slices(src, chunk_size))
    IN  [mapping |-> st.mapping, total_rows |-> st.total_rows]

-----------------------------------------------------------------------------
(* compare_datasets *)

\* The length of the detail lists: the code's [:100], scaled down so that
\* the model's key sets can exceed it.
DetailLimit == 1

\* The orders in which iterating a set can yield its elements.
Orders(S) == {s \in [1..Cardinality(S) -> S] : Range(s) = S}

\* Line 100 without its digest test: every shared key.
SharedKeys(map_a, map_b) == DOMAIN map_a \cap DOMAIN map_b

ChangedKeys(map_a, map_b) ==
    {k \in DOMAIN map_a \cap DOMAIN map_b : map_a[k] # map_b[k]}

\* Lines 93-100: the three full lists.  `order` is the order in which the
\* set keys_a & keys_b yields the changed keys.
Classify(map_a, map_b, order) ==
    [missing_in_b |-> Sorted(DOMAIN map_a \ DOMAIN map_b),
     extra_in_b   |-> Sorted(DOMAIN map_b \ DOMAIN map_a),
     changed      |-> order]

\* Lines 102-116: the returned summary and details (with the full lists
\* kept beside them as `lists`).
compare_datasets(ma, mb, order) ==
    LET l == Classify(ma.mapping, mb.mapping, order)
    IN  [summary |-> [rows_a |-> ma.total_rows,
                      rows_b |-> mb.total_rows,
                      missing_in_b |-> Len(l.missing_in_b),
                      extra_in_b |-> Len(l.extra_in_b),
                      changed |-> Len(l.changed)],
         details |-> [missing_in_b |-> Take(l.missing_in_b, DetailLimit),
                      extra_in_b |-> Take(l.extra_in_b, DetailLimit),
                      changed |-> Take(l.changed, DetailLimit)],
         lists |-> l]

-----------------------------------------------------------------------------
(* compare/value_comparator.py.  Besides the cell values above, a value is *)
(* a float [t |-> "float", neg, i, f] of magnitude i + f / Scale, an int   *)
(* too large for a float (BigInt), a datetime, or a list.  Arithmetic is   *)
(* exact where Python's is binary floating point; the texts of the model   *)
(* hold no exponent, underscore, inf or nan, and no ISO date other than    *)
(* YYYY-MM-DD with a day up to 28.                                         *)

\* The resolution of the model's non-integer numbers: 1 / Scale.
Scale == 100000000

\* What float() returns: a sign and a magnitude i + f / Scale, zero unsigned.
Num(neg, i, f) == [t |-> "num", neg |-> neg /\ (i # 0 \/ f # 0), i |-> i, f |-> f]
FloatV(neg, i, f) == [t |-> "float", neg |-> neg, i |-> i, f |-> f]
\* An int above sys.float_info.max, such as 10 ** 400.
BigInt == [t |-> "bigint"]
\* A datetime: its date, its second of the day, and whether it is aware (UTC).
DateV(date, sec, aware) ==
    [t |-> "datetime", date |-> date, sec |-> sec, aware |-> aware]

\* An exception leaving a function.
Raises(exc) == [exc |-> exc]
IsRaise(x) == "exc" \in DOMAIN x

Abs(n) == IF n < 0 THEN 0 - n ELSE n

IsNumeric(x) == x.t \in {"bool", "int", "float"}

\* The value of a bool, int or float as a number.
NumOf(x) ==
    CASE x.t = "bool" -> Num(FALSE, IF x.v THEN 1 ELSE 0, 0)
      [] x.t = "int" -> Num(x.v < 0, Abs(x.v), 0)
      [] x.t = "float" -> Num(x.neg, x.i, x.f)

\* expected == actual in Python: True == 1 == 1.0, a str equals only a str,
\* a naive datetime never equals an aware one, lists compare by element.
RECURSIVE RawEq(_, _)
RawEq(a, b) ==
    CASE IsNumeric(a) /\ IsNumeric(b) -> NumOf(a) = NumOf(b)
      [] a.t = "list" /\ b.t = "list" ->
            /\ Len(a.v) = Len(b.v)
            /\ \A i \in DOMAIN a.v : RawEq(a.v[i], b.v[i])
      [] OTHER -> a.t = b.t /\ a = b

RECURSIVE LStrip(_)
LStrip(s) == IF s # <<>> /\ Head(s) = " " THEN LStrip(Tail(s)) ELSE s

RECURSIVE RStrip(_)
RStrip(s) ==
    IF s # <<>> /\ s[Len(s)] = " " THEN RStrip(SubSeq(s, 1, Len(s) - 1))
    ELSE s

\* s.strip()
Strip(s) == LStrip(RStrip(s))

\* s.lower() without its case folding.
SameCase(s) == s

LowerChar(c) ==
    IF Ord("A") <= Ord(c) /\ Ord(c) <= Ord("Z")
    THEN Alphabet[Ord(c) + (Ord("a") - Ord("A"))]
    ELSE c

\* s.lower()
Lower(s) == [i \in DOMAIN s |-> LowerChar(s[i])]

\* s.replace(",", "")
RECURSIVE DropCommas(_)
DropCommas(s) ==
    IF s = <<>> THEN <<>>
    ELSE IF Head(s) = "," THEN DropCommas(Tail(s))
    ELSE <<Head(s)>> \o DropCommas(Tail(s))

IsDigit(c) == c \in Range(Digits)
DigitVal(c) == (CHOOSE i \in DOMAIN Digits : Digits[i] = c) - 1
AllDigits(s) == \A i \in DOMAIN s : IsDigit(s[i])

RECURSIVE DigitsToInt(_)
DigitsToInt(s) ==
    IF s = <<>> THEN 0
    ELSE 10 * DigitsToInt(SubSeq(s, 1, Len(s) - 1)) + DigitVal(s[Len(s)])

RECURSIVE Pow10(_)
Pow10(k) == IF k = 0 THEN 1 ELSE 10 * Pow10(k - 1)

\* float(s) for a text of an optional sign, digits, and an optional point
\* and more digits; anything else raises ValueError, which the callers
\* catch and turn into None.
ParseFloat(s) ==
    LET neg == s # <<>> /\ Head(s) = "-"
        body == IF neg THEN Tail(s) ELSE s
        dots == {i \in DOMAIN body : body[i] = "."}
        dot == IF dots = {} THEN Len(body) + 1 ELSE CHOOSE i \in dots : TRUE
        int == SubSeq(body, 1, dot - 1)
        frac == SubSeq(body, dot + 1, Len(body))
    IN  IF /\ Cardinality(dots) <= 1
           /\ AllDigits(int) /\ AllDigits(frac)
           /\ int \o frac # <<>>
           /\ Pow10(Len(frac)) <= Scale
        THEN Num(neg, DigitsToInt(int),
                 DigitsToInt(frac) * (Scale \div Pow10(Len(frac))))
        ELSE None

\* _try_num: float(v), or None; float() of an int beyond the float range
\* raises OverflowError, outside any try.
try_num(v) ==
    CASE v.t \in {"int", "float"} -> NumOf(v)
      [] v.t = "bigint" -> Raises("OverflowError")
      [] v.t = "str" ->
            IF Strip(v.v) = <<>> THEN None
            ELSE ParseFloat(DropCommas(Strip(v.v)))
      [] OTHER -> None

TrueTexts == {<<"t", "r", "u", "e">>, <<"t">>, <<"y", "e", "s">>, <<"1">>}
FalseTexts == {<<"f", "a", "l", "s", "e">>, <<"f">>, <<"n", "o">>, <<"0">>}

\* _try_bool: the boolean, or None.
try_bool(v) ==
    CASE v.t = "bool" -> v
      [] v.t \in {"int", "float"} ->
            IF NumOf(v) = Num(FALSE, 0, 0) THEN BoolV(FALSE)
            ELSE IF NumOf(v) = Num(FALSE, 1, 0) THEN BoolV(TRUE) ELSE None
      [] v.t = "str" -> IF Lower(Strip(v.v)) \in TrueTexts THEN BoolV(TRUE)
                        ELSE IF Lower(Strip(v.v)) \in FalseTexts
                        THEN BoolV(FALSE) ELSE None
      [] OTHER -> None

\* datetime.fromisoformat(s) for YYYY-MM-DD; anything else raises
\* ValueError, which _try_date_iso catches.
FromIso(s) ==
    IF /\ Len(s) = 10 /\ s[5] = "-" /\ s[8] = "-"
       /\ AllDigits(SubSeq(s, 1, 4)) /\ AllDigits(SubSeq(s, 6, 7))
       /\ AllDigits(SubSeq(s, 9, 10))
       /\ DigitsToInt(SubSeq(s, 1, 4)) >= 1
       /\ DigitsToInt(SubSeq(s, 6, 7)) \in 1..12
       /\ DigitsToInt(SubSeq(s, 9, 10)) \in 1..28
    THEN DateV(DigitsToInt(SubSeq(s, 1, 4)) * 10000
               + DigitsToInt(SubSeq(s, 6, 7)) * 100
               + DigitsToInt(SubSeq(s, 9, 10)), 0, FALSE)
    ELSE None

\* _try_date_iso: the datetime, or None.
try_date_iso(v) ==
    CASE v.t = "datetime" -> v
      [] v.t = "str" -> IF Strip(v.v) = <<>> THEN None ELSE FromIso(Strip(v.v))
      [] OTHER -> None

\* type(v).__name__.lower() of a value that is no str.
TypeName(v) ==
    CASE v.t = "null" -> "nonetype"
      [] v.t = "bigint" -> "int"
      [] OTHER -> v.t

\* Lines 67-75: the lightweight type of a value, as [type |-> its name],
\* or the exception that _try_num lets out.
type_of(v) ==
    IF try_bool(v) # None THEN [type |-> "bool"]
    ELSE IF IsRaise(try_num(v)) THEN try_num(v)
    ELSE IF try_num(v) # None THEN [type |-> "number"]
    ELSE IF try_date_iso(v) # None THEN [type |-> "datetime"]
    ELSE IF v.t = "str" THEN [type |-> "string"]
    ELSE [type |-> TypeName(v)]

\* |a| < |b|
MagLess(a, b) == a.i < b.i \/ (a.i = b.i /\ a.f < b.f)
MagMax(a, b) == IF MagLess(a, b) THEN b ELSE a

\* abs(n_exp - n_act), as a magnitude [i, f].
AbsDiff(a, b) ==
    LET hi == MagMax(a, b)
        lo == IF MagLess(a, b) THEN a ELSE b
    IN  IF a.neg = b.neg
        THEN IF hi.f >= lo.f
             THEN [i |-> hi.i - lo.i, f |-> hi.f - lo.f]
             ELSE [i |-> hi.i - lo.i - 1, f |-> hi.f - lo.f + Scale]
        ELSE IF a.f + b.f < Scale
             THEN [i |-> a.i + b.i, f |-> a.f + b.f]
             ELSE [i |-> a.i + b.i + 1, f |-> a.f + b.f - Scale]

\* max(abs(n_exp), abs(n_act), 1.0)
Denom(a, b) == MagMax(MagMax(a, b), [i |-> 1, f |-> 0])

\* float_tol = 1e-9 as TolNum / TolDen.
TolNum == 1
TolDen == 1000000000
FloatTol == [num |-> TolNum, den |-> TolDen]

\* m * float_tol rounded down to the resolution, for a tolerance 1 / den
\* with den a power of ten.
TolTimes(m, float_tol) ==
    LET units == IF float_tol.den >= Scale
                 THEN m.i \div (float_tol.den \div Scale)
                 ELSE m.i * (Scale \div float_tol.den) + m.f \div float_tol.den
    IN  [i |-> units \div Scale, f |-> units % Scale]

\* Line 92 with the difference itself for the relative one.
WithinAbsTol(a, b, float_tol) ==
    ~MagLess(TolTimes([i |-> 1, f |-> 0], float_tol), AbsDiff(a, b))

\* Lines 90-92: abs(a - b) / max(abs(a), abs(b), 1.0) <= float_tol.
WithinTol(a, b, float_tol) ==
    ~MagLess(TolTimes(Denom(a, b), float_tol), AbsDiff(a, b))

Verdict(m, t, k) == [is_match |-> m, has_type_mismatch |-> t, match_type |-> k]

compare_values(expected, actual, float_tol) ==
    LET t_exp == type_of(expected)
        t_act == type_of(actual)
        mism == t_exp # t_act
        n_exp == try_num(expected)
        n_act == try_num(actual)
        b_exp == try_bool(expected)
        b_act == try_bool(actual)
        d_exp == try_date_iso(expected)
        d_act == try_date_iso(actual)
        zero_one(n) == n # None /\ n \in {Num(FALSE, 0, 0), Num(FALSE, 1, 0)}
        agree(b, n) == (b.v /\ n.i = 1) \/ (~b.v /\ n.i = 0)
    IN  IF expected.t = "null" /\ actual.t = "null"
        THEN Verdict(TRUE, FALSE, "both_null")
        ELSE IF IsRaise(t_exp) THEN t_exp
        ELSE IF IsRaise(t_act) THEN t_act
        ELSE IF RawEq(expected, actual)
        THEN Verdict(TRUE, mism, IF mism THEN "coerced_exact" ELSE "exact")
        ELSE IF n_exp # None /\ n_act # None
        THEN IF WithinTol(n_exp, n_act, float_tol)
             THEN Verdict(TRUE, mism, "numeric_tol")
             ELSE Verdict(FALSE, mism, "numeric_rel")
        ELSE IF b_exp # None /\ zero_one(n_act) /\ agree(b_exp, n_act)
        THEN Verdict(TRUE, TRUE, "coerced_bool_number")
        ELSE IF b_act # None /\ zero_one(n_exp) /\ agree(b_act, n_exp)
        THEN Verdict(TRUE, TRUE, "coerced_bool_number")
        ELSE IF expected.t = "str" /\ actual.t = "str"
        THEN IF Lower(Strip(expected.v)) = Lower(Strip(actual.v))
             THEN Verdict(TRUE, mism, "case_insensitive_exact")
             ELSE Verdict(FALSE, mism, "string_mismatch")
        ELSE IF d_exp # None /\ d_act # None
        THEN IF d_exp = d_act
             THEN Verdict(TRUE, mism, "datetime_exact")
             ELSE IF d_exp.date = d_act.date
             THEN Verdict(TRUE, mism, "datetime_same_day")
             ELSE Verdict(FALSE, mism, "datetime_mismatch")
        ELSE Verdict(FALSE, mism, "mismatch")

-----------------------------------------------------------------------------
(* compare/cell_comparator.py *)

\* Lines 27 and 34 with the key columns taken last to first.
CellKeyReversed(r, pk_cols) ==
    Join(<<"|">>,
         [i \in DOMAIN pk_cols.v |->
             CellText(RowAt(r, pk_cols.v[Len(pk_cols.v) + 1 - i]))])

\* Lines 27 and 34: the key of a row at the re-scan,
\* "|".join([str(row[c]) if row[c] is not None else "NULL" for c in pk_cols])
cell_pk_val(r, pk_cols) ==
    LET text(c) == IF RowAt(r, c).t # "null" THEN PyStr(RowAt(r, c))
                   ELSE <<"N", "U", "L", "L">>
    IN  Join(<<"|">>, [i \in DOMAIN pk_cols.v |-> text(pk_cols.v[i])])

\* Lines 23-36: the rows of one source whose key is in pk_set, by key.
RECURSIVE CellMap(_, _, _, _)
CellMap(m, rows, pk_cols, pk_set) ==
    IF rows = <<>> THEN m
    ELSE LET k == cell_pk_val(Head(rows), pk_cols)
         IN  CellMap(IF k \in pk_set THEN Put(m, k, Head(rows)) ELSE m,
                     Tail(rows), pk_cols, pk_set)

\* Line 49: `if val_a != val_b`
differs(val_a, val_b) == ~RawEq(val_a, val_b)

\* Lines 45-50: the differences of one pair of rows, over row_a's columns.
RECURSIVE RowDiffs(_, _, _)
RowDiffs(cols, row_a, row_b) ==
    IF cols = <<>> THEN <<>>
    ELSE LET col == Head(cols)
             val_a == RowGet(row_a, col)
             val_b == RowGet(row_b, col)
         IN  (IF differs(val_a, val_b)
              THEN <<[column |-> col, a |-> val_a, b |-> val_b]>>
              ELSE <<>>)
             \o RowDiffs(Tail(cols), row_a, row_b)

\* Lines 18 and 39: the loop's state before its first iteration.
CellStart(differing_pks) == [todo |-> differing_pks, diffs |-> <<>>]

\* Lines 40-43 with `break` for `continue`: a miss ends the loop.
CellIterBreak(st, map_a, map_b) ==
    LET k == Head(st.todo)
    IN  IF k \notin DOMAIN map_a \/ k \notin DOMAIN map_b
        THEN [todo |-> <<>>, diffs |-> st.diffs]
        ELSE LET d == RowDiffs(RowKeys(map_a[k]), map_a[k], map_b[k])
             IN  [todo |-> Tail(st.todo),
                  diffs |-> IF d # <<>>
                            THEN Append(st.diffs, [pk |-> k, differences |-> d])
                            ELSE st.diffs]

\* Lines 39-53: one iteration of the loop over differing_pks.
CellIter(st, map_a, map_b) ==
    LET k == Head(st.todo)
    IN  IF k \notin DOMAIN map_a \/ k \notin DOMAIN map_b
        THEN [todo |-> Tail(st.todo), diffs |-> st.diffs]
        ELSE LET d == RowDiffs(RowKeys(map_a[k]), map_a[k], map_b[k])
             IN  [todo |-> Tail(st.todo),
                  diffs |-> IF d # <<>>
                            THEN Append(st.diffs, [pk |-> k, differences |-> d])
                            ELSE st.diffs]

\* Lines 38-55: the loop over differing_pks, and the list it returns.
RECURSIVE CellLoop(_, _, _)
CellLoop(st, map_a, map_b) ==
    IF st.todo = <<>> THEN st.diffs
    ELSE CellLoop(CellIter(st, map_a, map_b), map_a, map_b)

compare_cells(src_a, src_b, pk_cols, differing_pks) ==
    LET pk_set == Range(differing_pks)
        map_a == CellMap(EmptyMap, to_dicts(src_a), pk_cols, pk_set)
        map_b == CellMap(EmptyMap, to_dicts(src_b), pk_cols, pk_set)
    IN  CellLoop(CellStart(differing_pks), map_a, map_b)

-----------------------------------------------------------------------------
(* The inputs the specifications draw from *)

c_id == <<"i", "d">>
c_name == <<"n", "a", "m", "e">>
c_zz == <<"z", "z">>

Alice == StrV(<<"A", "l", "i", "c", "e">>)
Bob == StrV(<<"B", "o", "b">>)
bob == StrV(<<"b", "o", "b">>)

\* The most rows a dataset holds.
MaxRows == 2

SeqsUpTo(S, n) == UNION {[1..k -> S] : k \in 0..n}

Cols == <<c_id, c_name>>

RowUniverse ==
    {<<IntV(1), Alice>>, <<IntV(1), Bob>>, <<IntV(2), Bob>>, <<IntV(2), bob>>}

Datasets == [cols : {Cols}, rows : SeqsUpTo(RowUniverse, MaxRows)]

ChunkSizes == {1, 2}

NoScan == [st |-> ScanStart(None), todo |-> <<>>]
NoMaps == [a |-> None, b |-> None]

\* The variables of the /compare job, while no job runs.
JobIdle ==
    /\ opts = None /\ log = <<>> /\ schema = None /\ cells = None
    /\ enrich = None /\ outcome = None /\ disk = {}

JobVars == <<opts, log, schema, cells, enrich, outcome, disk>>
HashVars == <<row, digest>>
\* The variables of the unit specifications of compare_values, compare_cells
\* and the schema comparison, and their value while none of these runs.
UnitVars == <<call, cellrun, migration, hist>>
UnitIdle ==
    call = None /\ cellrun = None /\ migration = None /\ hist = None
ReconVars == <<scan, maps, result, chunkA, chunkB>>

-----------------------------------------------------------------------------
(* SpecHash: _make_row_hash on one row whose columns are reordered *)

HashCells == {Null, IntV(1), StrV(<<"1">>), StrV(NULL)}

HashRows ==
    {<<<<c_id, x>>, <<c_name, y>>, <<c_zz, z>>>> :
        x \in HashCells, y \in HashCells, z \in HashCells}

InitHash ==
    /\ pc = "hash"
    /\ row \in HashRows
    /\ digest = make_row_hash(row)
    /\ srcA = None /\ srcB = None /\ pk = None
    /\ chunkA = 0 /\ chunkB = 0
    /\ scan = NoScan /\ maps = NoMaps /\ result = None
    /\ JobIdle /\ UnitIdle

\* The same dict built with two neighbouring columns in the other order.
Reorder ==
    /\ pc \in {"hash", "reordered"}
    /\ \E i \in 1..(Len(row) - 1) :
        row' = [row EXCEPT ![i] = row[i + 1], ![i + 1] = row[i]]
    /\ pc' = "reordered"
    /\ UNCHANGED <<digest, srcA, srcB, pk, ReconVars, JobVars, UnitVars>>

NextHash == Reorder

SpecHash == InitHash /\ [][NextHash]_vars

-----------------------------------------------------------------------------
(* SpecRecon: compare_datasets, chunk by chunk *)

InitRecon ==
    /\ pc = "scanA"
    /\ srcA \in Datasets
    /\ srcB \in Datasets
    /\ pk \in {None, ListV(<<c_id>>), ListV(<<c_name>>), ListV(<<c_name, c_id>>)}
    /\ chunkA \in ChunkSizes
    /\ chunkB \in ChunkSizes
    /\ scan = [st |-> ScanStart(pk), todo |-> iter_slices(srcA, chunkA)]
    /\ maps = NoMaps
    /\ result = None
    /\ row = None /\ digest = None
    /\ JobIdle /\ UnitIdle

\* One iteration of the loop at line 56.
NextChunk ==
    /\ pc \in {"scanA", "scanB"}
    /\ scan.todo # <<>>
    /\ scan' = [st |-> ChunkStep(scan.st, Head(scan.todo)),
                todo |-> Tail(scan.todo)]
    /\ UNCHANGED <<pc, srcA, srcB, pk, chunkA, chunkB, maps, result,
                   HashVars, JobVars, UnitVars>>

Finished(st) == [mapping |-> st.mapping, total_rows |-> st.total_rows]

\* Line 89 returns; line 90 starts B's scan with the caller's pk_cols.
EndScanA ==
    /\ pc = "scanA"
    /\ scan.todo = <<>>
    /\ maps' = [maps EXCEPT !.a = Finished(scan.st)]
    /\ scan' = [st |-> ScanStart(pk), todo |-> iter_slices(srcB, chunkB)]
    /\ pc' = "scanB"
    /\ UNCHANGED <<srcA, srcB, pk, chunkA, chunkB, result,
                   HashVars, JobVars, UnitVars>>

\* Line 90 returns.
EndScanB ==
    /\ pc = "scanB"
    /\ scan.todo = <<>>
    /\ maps' = [maps EXCEPT !.b = Finished(scan.st)]
    /\ pc' = "classify"
    /\ UNCHANGED <<srcA, srcB, pk, chunkA, chunkB, scan, result,
                   HashVars, JobVars, UnitVars>>

\* Lines 92-116.
Compare ==
    /\ pc = "classify"
    /\ \E order \in Orders(ChangedKeys(maps.a.mapping, maps.b.mapping)) :
        result' = compare_datasets(maps.a, maps.b, order)
    /\ pc' = "done"
    /\ UNCHANGED <<srcA, srcB, pk, chunkA, chunkB, scan, maps,
                   HashVars, JobVars, UnitVars>>

NextRecon == NextChunk \/ EndScanA \/ EndScanB \/ Compare

SpecRecon == InitRecon /\ [][NextRecon]_vars

-----------------------------------------------------------------------------
(* Properties of _make_row_hash (SpecHash) *)

\* C9: the digest of a row is the same for every order of its columns.
C9_DigestIgnoresColumnOrder ==
    pc \in {"hash", "reordered"} => make_row_hash(row) = digest

\* A row whose columns arrive in descending name order, with a null, a
\* number and a text in them.
C9_Witness ==
    /\ pc = "reordered"
    /\ RowKeys(row) = <<c_zz, c_name, c_id>>
    /\ RowAt(row, c_id) = IntV(1)
    /\ RowAt(row, c_name) = Null
    /\ RowAt(row, c_zz) = StrV(NULL)

-----------------------------------------------------------------------------
(* Properties of _prepare_pk_and_hash and compare_datasets (SpecRecon) *)

Keys(m) == DOMAIN m.mapping

\* The rows of a dataset, as dicts, in arrival order.
RowsOf(src) == to_dicts(src)

\* The digest of the last row of src whose key is k.
LastDigest(src, pk_cols, k) ==
    LET rs == RowsOf(src)
        last == CHOOSE i \in DOMAIN rs :
                    /\ pk_val(rs[i], pk_cols) = k
                    /\ \A j \in DOMAIN rs :
                          pk_val(rs[j], pk_cols) = k => j <= i
    IN  make_row_hash(rs[last])

ScanContract(src, m) ==
    /\ m.total_rows = Len(src.rows)
    /\ pk # None =>
        /\ Keys(m) = {pk_val(r, pk) : r \in Range(RowsOf(src))}
        /\ \A k \in Keys(m) : m.mapping[k] = LastDigest(src, pk, k)

\* C10: a finished scan returns the number of rows streamed, and with a
\* given key the map holds, for every key, the digest of the last row seen
\* with that key.
C10_RowCountAndLastSeenDigest ==
    /\ (pc \in {"scanB", "classify", "done"} => ScanContract(srcA, maps.a))
    /\ (pc \in {"classify", "done"} => ScanContract(srcB, maps.b))

\* Two rows of A share a key and differ: they collapsed to one entry.
C10_Witness ==
    /\ pc = "scanB"
    /\ pk = ListV(<<c_id>>)
    /\ maps.a.total_rows = 2
    /\ Cardinality(Keys(maps.a)) = 1
    /\ make_row_hash(RowsOf(srcA)[1]) # make_row_hash(RowsOf(srcA)[2])

NoRepeat(s) == Cardinality(Range(s)) = Len(s)

\* C3: missing_in_b is the keys of A not in B, extra_in_b the keys of B not
\* in A, changed the shared keys whose digests differ; the three are
\* pairwise disjoint.
C3_ThreeKeySets ==
    pc = "done" =>
        LET l == result.lists
            ma == maps.a.mapping
            mb == maps.b.mapping
        IN  /\ Range(l.missing_in_b) = DOMAIN ma \ DOMAIN mb
            /\ Range(l.extra_in_b) = DOMAIN mb \ DOMAIN ma
            /\ Range(l.changed) =
                 {k \in DOMAIN ma : k \in DOMAIN mb /\ ma[k] # mb[k]}
            /\ NoRepeat(l.missing_in_b)
            /\ NoRepeat(l.extra_in_b)
            /\ NoRepeat(l.changed)
            /\ Range(l.missing_in_b) \cap Range(l.extra_in_b) = {}
            /\ Range(l.missing_in_b) \cap Range(l.changed) = {}
            /\ Range(l.extra_in_b) \cap Range(l.changed) = {}

\* All three sets are non-empty, and a shared key is unchanged.
C3_Witness ==
    /\ pc = "done"
    /\ result.lists.missing_in_b # <<>>
    /\ result.lists.extra_in_b # <<>>
    /\ result.lists.changed # <<>>

Count(rows, r) == Cardinality({i \in DOMAIN rows : rows[i] = r})

\* B holds the rows of A, each as many times, in any order.
SameRows ==
    \A r \in Range(srcA.rows) \cup Range(srcB.rows) :
        Count(srcA.rows, r) = Count(srcB.rows, r)

UniqueKeys(src) ==
    \A i, j \in DOMAIN src.rows :
        pk_val(RowsOf(src)[i], pk) = pk_val(RowsOf(src)[j], pk) => i = j

\* C1: identical sets of rows, in any arrival order and any chunking, with
\* an explicit key (unique, as its contract assumes) or with pk_cols None:
\* nothing is missing, extra or changed.
C1_IdenticalRowsNoDifference ==
    (/\ pc = "done"
     /\ SameRows
     /\ pk # None => UniqueKeys(srcA) /\ UniqueKeys(srcB))
    => /\ result.summary.missing_in_b = 0
       /\ result.summary.extra_in_b = 0
       /\ result.summary.changed = 0

\* C4: the counts are the sizes of the full sets, and each detail list is
\* the first min(limit, n) keys of its set in sorted order.
C4_CountsExactDetailsSortedPrefix ==
    pc = "done" =>
        LET ma == maps.a.mapping
            mb == maps.b.mapping
            missing == DOMAIN ma \ DOMAIN mb
            extra == DOMAIN mb \ DOMAIN ma
            changed == {k \in DOMAIN ma : k \in DOMAIN mb /\ ma[k] # mb[k]}
        IN  /\ result.summary.missing_in_b = Cardinality(missing)
            /\ result.summary.extra_in_b = Cardinality(extra)
            /\ result.summary.changed = Cardinality(changed)
            /\ result.details.missing_in_b = Take(Sorted(missing), DetailLimit)
            /\ result.details.extra_in_b = Take(Sorted(extra), DetailLimit)
            /\ result.details.changed = Take(Sorted(changed), DetailLimit)

-----------------------------------------------------------------------------
(* Spec: one /compare job of main.py, stage by stage.  A read of a source  *)
(* and an exception raised in a stage are logged in order.                 *)

Ev(op, side, stage) == [op |-> op, side |-> side, stage |-> stage]
Raised(stage) == Ev("raise", "-", stage)

\* chunk_size of compare_datasets and _prepare_pk_and_hash.
DefaultChunk == 100000

\* FileAdapter.get_schema: fetch(sample_size) reads the head of the file;
\* with stream_infer_nulls the whole dataset is then streamed once by
\* infer_nullability_streaming_from_lazy.
GetSchemaReads(side, check_nulls) ==
    <<Ev("fetch", side, "schema")>>
    \o (IF check_nulls = "stream" THEN <<Ev("stream", side, "schema")>>
        ELSE <<>>)

SchemaReads(check_nulls) ==
    GetSchemaReads("A", check_nulls) \o GetSchemaReads("B", check_nulls)

ReconReads == <<Ev("iter", "A", "recon"), Ev("iter", "B", "recon")>>
CellReads == <<Ev("iter", "A", "cell"), Ev("iter", "B", "cell")>>

Error(status, detail) == [kind |-> "error", status |-> status, detail |-> detail]

\* `if request.primary_key:` / `if not pk_list:`
Truthy(p) == p # None /\ p.v # <<>>

\* Line 273 without its test of the changed count.
CellsAlways(data_report, p) == Truthy(p)

\* Line 273: `if data_report["summary"]["changed"] > 0 and request.primary_key`
CellsWanted(data_report, p) == data_report.summary.changed > 0 /\ Truthy(p)

\* Lines 283-302: the coercion enrichment.
RECURSIVE EnrichDiffs(_, _)
EnrichDiffs(k, diffs) ==
    IF diffs = <<>> THEN <<>>
    ELSE LET d == Head(diffs)
             r == compare_values(d.a, d.b, FloatTol)
             v == IF IsRaise(r) THEN Verdict(FALSE, FALSE, "error") ELSE r
         IN  (IF v.is_match /\ v.has_type_mismatch
              THEN <<[row_id |-> k, column |-> d.column, expected |-> d.a,
                      actual |-> d.b, match_type |-> v.match_type,
                      coerced |-> TRUE]>>
              ELSE <<>>)
             \o EnrichDiffs(k, Tail(diffs))

RECURSIVE Enrichment(_)
Enrichment(cell_report) ==
    IF cell_report = <<>> THEN <<>>
    ELSE EnrichDiffs(Head(cell_report).pk, Head(cell_report).differences)
         \o Enrichment(Tail(cell_report))

\* Lines 305-333: the report.
Report(schema_report, data_report, cell_report, mismatches) ==
    [schema_comparison |-> schema_report,
     summary |-> data_report.summary,
     details |-> data_report.details,
     coerced_matches |-> Len(mismatches),
     cell_level_mismatches |-> mismatches,
     cell_comparison |-> cell_report]

JobPks == {None, ListV(<<>>), ListV(<<c_id>>), ListV(<<c_name>>), ListV(<<c_zz>>)}

Init ==
    /\ pc = "adapters"
    /\ srcA \in Datasets
    /\ srcB \in Datasets
    /\ pk \in JobPks
    /\ opts \in {"none", "sample", "stream"}
    /\ log = <<>>
    /\ schema = None /\ result = None /\ cells = <<>> /\ enrich = <<>>
    /\ outcome = None /\ disk = {}
    /\ chunkA = DefaultChunk /\ chunkB = DefaultChunk
    /\ scan = NoScan /\ maps = NoMaps
    /\ row = None /\ digest = None
    /\ UnitIdle

Inputs == <<srcA, srcB, pk, opts, chunkA, chunkB, scan, maps, row, digest>>

Fail(stage, readsDone, status, detail) ==
    /\ log' = log \o readsDone \o <<Raised(stage)>>
    /\ outcome' = Error(status, detail)
    /\ pc' = "error"

\* Lines 158-183.
BuildAdapters ==
    /\ pc = "adapters"
    /\ pc' = "schema"
    /\ UNCHANGED <<Inputs, UnitVars,
                   log, schema, result, cells, enrich, outcome, disk>>

AdapterFail ==
    /\ pc = "adapters"
    /\ Fail("adapters", <<>>, 400, "Adapter creation failed")
    /\ UNCHANGED <<Inputs, UnitVars, schema, result, cells, enrich, disk>>

\* Lines 188-213: both schemas are fetched and compared.
SchemaStage ==
    /\ pc = "schema"
    /\ log' = log \o SchemaReads(opts)
    /\ schema' = [a |-> srcA.cols, b |-> srcB.cols]
    /\ pc' = "pk"
    /\ UNCHANGED <<Inputs, UnitVars, result, cells, enrich, outcome, disk>>

\* Lines 214-215: anything raised in the stage, after n of its reads began.
SchemaFail ==
    /\ pc = "schema"
    /\ \E n \in 0..Len(SchemaReads(opts)) :
        Fail("schema", Take(SchemaReads(opts), n), 500,
             "Schema comparison failed")
    /\ UNCHANGED <<Inputs, UnitVars, schema, result, cells, enrich, disk>>

\* Lines 236-237.
PkRequired ==
    /\ pc = "pk"
    /\ ~Truthy(pk)
    /\ Fail("pk", <<>>, 400, "primary_key is required")
    /\ UNCHANGED <<Inputs, UnitVars, schema, result, cells, enrich, disk>>

MissingIn(cols, p) == {i \in DOMAIN p.v : p.v[i] \notin Range(cols)}

\* Lines 240-259.
PkNotFound ==
    /\ pc = "pk"
    /\ Truthy(pk)
    /\ MissingIn(schema.a, pk) # {} \/ MissingIn(schema.b, pk) # {}
    /\ Fail("pk", <<>>, 400, "Primary key column(s) not found")
    /\ UNCHANGED <<Inputs, UnitVars, schema, result, cells, enrich, disk>>

\* Line 262.
PkOk ==
    /\ pc = "pk"
    /\ Truthy(pk)
    /\ MissingIn(schema.a, pk) = {} /\ MissingIn(schema.b, pk) = {}
    /\ pc' = "hash"
    /\ UNCHANGED <<Inputs, UnitVars,
                   log, schema, result, cells, enrich, outcome, disk>>

\* Lines 266-267: compare_datasets scans A, then B, then classifies.
HashStage ==
    /\ pc = "hash"
    /\ LET ma == prepare_pk_and_hash(srcA, pk, chunkA)
           mb == prepare_pk_and_hash(srcB, pk, chunkB)
       IN  \E order \in Orders(ChangedKeys(ma.mapping, mb.mapping)) :
              result' = compare_datasets(ma, mb, order)
    /\ log' = log \o ReconReads
    /\ pc' = "cell"
    /\ UNCHANGED <<Inputs, UnitVars, schema, cells, enrich, outcome, disk>>

\* Lines 268-269: a scan raises, before or after it began.
HashFail ==
    /\ pc = "hash"
    /\ \E n \in 0..Len(ReconReads) :
        Fail("recon", Take(ReconReads, n), 500, "Data comparison failed")
    /\ UNCHANGED <<Inputs, UnitVars, schema, result, cells, enrich, disk>>

\* Lines 273-279: compare_cells on the detail list of changed keys.
CellStage ==
    /\ pc = "cell"
    /\ CellsWanted(result, pk)
    /\ cells' = compare_cells(srcA, srcB, pk, result.details.changed)
    /\ log' = log \o CellReads
    /\ pc' = "report"
    /\ UNCHANGED <<Inputs, UnitVars, schema, result, enrich, outcome, disk>>

\* Lines 280-281: `except Exception: pass` leaves cell_report empty.
CellFail ==
    /\ pc = "cell"
    /\ CellsWanted(result, pk)
    /\ \E n \in 0..Len(CellReads) :
        log' = log \o Take(CellReads, n) \o <<Raised("cell")>>
    /\ pc' = "report"
    /\ UNCHANGED <<Inputs, UnitVars,
                   schema, result, cells, enrich, outcome, disk>>

\* Line 273, the test fails.
CellSkip ==
    /\ pc = "cell"
    /\ ~CellsWanted(result, pk)
    /\ pc' = "report"
    /\ UNCHANGED <<Inputs, UnitVars,
                   log, schema, result, cells, enrich, outcome, disk>>

\* Lines 283-339: enrichment, the report, and its file.
WriteReport ==
    /\ pc = "report"
    /\ enrich' = Enrichment(cells)
    /\ disk' = disk \cup {"report"}
    /\ pc' = "history"
    /\ UNCHANGED <<Inputs, UnitVars, log, schema, result, cells, outcome>>

\* Lines 340-341: the file may be left behind, truncated.
WriteFail ==
    /\ pc = "report"
    /\ enrich' = Enrichment(cells)
    /\ disk' \in {disk, disk \cup {"partial"}}
    /\ Fail("write", <<>>, 500, "Failed to save report")
    /\ UNCHANGED <<Inputs, UnitVars, schema, result, cells>>

\* Lines 344-356.
SaveHistory ==
    /\ pc = "history"
    /\ disk' = disk \cup {"history"}
    /\ outcome' = [kind |-> "report",
                   report |-> Report(schema, result, cells, enrich)]
    /\ pc' = "done"
    /\ UNCHANGED <<Inputs, UnitVars, log, schema, result, cells, enrich>>

\* save_history raises (it catches nothing when writing): the request
\* fails with the report file already written.
HistoryFail ==
    /\ pc = "history"
    /\ Fail("history", <<>>, 500, "Internal Server Error")
    /\ UNCHANGED <<Inputs, UnitVars, schema, result, cells, enrich, disk>>

Next ==
    \/ BuildAdapters \/ AdapterFail
    \/ SchemaStage \/ SchemaFail
    \/ PkRequired \/ PkNotFound \/ PkOk
    \/ HashStage \/ HashFail
    \/ CellStage \/ CellFail \/ CellSkip
    \/ WriteReport \/ WriteFail
    \/ SaveHistory \/ HistoryFail

Spec == Init /\ [][Next]_vars

-----------------------------------------------------------------------------
(* Properties of the /compare job (Spec) *)

InLog(e) == \E i \in DOMAIN log : log[i] = e
RaisedIn(stages) ==
    \E i \in DOMAIN log : log[i].op = "raise" /\ log[i].stage \in stages
Reported == outcome # None /\ outcome.kind = "report"

ExampleA == [cols |-> Cols, rows |-> <<<<IntV(1), Alice>>, <<IntV(2), Bob>>>>]
ExampleB == [cols |-> Cols, rows |-> <<<<IntV(1), Alice>>, <<IntV(2), bob>>>>]

\* C2: on the example the changed set is {"2"} and the cell diff of key
\* "2" holds no difference; in general a reported difference is a pair of
\* values that compare_values does not match.
C2_CellDiffOnlyWhereValuesDoNotMatch ==
    (Reported /\ ~RaisedIn({"cell"})) =>
        /\ (srcA = ExampleA /\ srcB = ExampleB /\ pk = ListV(<<c_id>>)) =>
              /\ Range(result.lists.changed) = {<<"2">>}
              /\ \A i \in DOMAIN cells :
                    cells[i].pk = <<"2">> => cells[i].differences = <<>>
        /\ \A i \in DOMAIN cells :
              \A j \in DOMAIN cells[i].differences :
                 LET d == cells[i].differences[j]
                 IN  ~compare_values(d.a, d.b, FloatTol).is_match

\* The rows a re-scan of the two sources finds for the changed keys.
RescanA == CellMap(EmptyMap, to_dicts(srcA), pk, Range(result.lists.changed))
RescanB == CellMap(EmptyMap, to_dicts(srcB), pk, Range(result.lists.changed))

\* Some column of the two rows fails compare_values.
GenuinelyDiffer(ra, rb) ==
    \E c \in Range(RowKeys(ra)) \cup Range(RowKeys(rb)) :
        ~compare_values(RowGet(ra, c), RowGet(rb, c), FloatTol).is_match

\* C5: every changed key found on both sides at the re-scan whose rows
\* genuinely differ has an entry in the job's cell diff.
C5_EveryChangedKeyIsCellDiffed ==
    (Reported /\ ~RaisedIn({"cell"})) =>
        \A k \in Range(result.lists.changed) :
            (/\ k \in DOMAIN RescanA
             /\ k \in DOMAIN RescanB
             /\ GenuinelyDiffer(RescanA[k], RescanB[k]))
            => \E i \in DOMAIN cells : cells[i].pk = k

\* C6: once the schema stage, the reconciliation or the cell diff has
\* raised, the job ends in an error: no report is written or returned.
C6_AllOrNothing ==
    RaisedIn({"schema", "recon", "cell"}) =>
        /\ ~Reported
        /\ pc # "done"
        /\ "report" \notin disk

Source(side) == IF side = "A" THEN srcA ELSE srcB

\* A pass over all the rows of a source that has rows (the head read of
\* get_schema's fetch is not counted).
StreamsRows(e) == e.op \in {"stream", "iter"} /\ Source(e.side).rows # <<>>

\* C8: a job that fails for want of a usable primary key (none, empty, or
\* naming a column a schema lacks) has streamed no row of either dataset,
\* whatever the nullability mode.
C8_KeyErrorBeforeStreaming ==
    RaisedIn({"pk"}) => \A i \in DOMAIN log : ~StreamsRows(log[i])

IterCount(side) ==
    Cardinality({i \in DOMAIN log : log[i].op = "iter" /\ log[i].side = side})

\* C7: a cell-diff scan comes after the reconciliation scans of both A and
\* B, and only when the changed count is positive; when it is zero each
\* source is iterated once, by the reconciliation, and never again.
C7_CellDiffAfterReconciliation ==
    /\ \A i \in DOMAIN log :
          (log[i].op = "iter" /\ log[i].stage = "cell") =>
             /\ result # None
             /\ result.summary.changed > 0
             /\ \E j \in 1..(i - 1) : log[j] = Ev("iter", "A", "recon")
             /\ \E j \in 1..(i - 1) : log[j] = Ev("iter", "B", "recon")
    /\ (result # None /\ result.summary.changed = 0) =>
          IterCount("A") = 1 /\ IterCount("B") = 1

\* A job that ran its cell diff on both sources and returned its report.
C7_Witness ==
    /\ Reported
    /\ result.summary.changed > 0
    /\ InLog(Ev("iter", "A", "cell"))
    /\ InLog(Ev("iter", "B", "cell"))

-----------------------------------------------------------------------------
(* SpecCells: compare_cells on its own.  B's frame may carry a column that *)
(* A's lacks, and differing_pks may name keys a re-scan does not find.     *)

ColsWide == <<c_id, c_name, c_zz>>

WideRowUniverse ==
    {<<IntV(1), Alice, Null>>, <<IntV(1), Alice, IntV(1)>>,
     <<IntV(2), Bob, IntV(1)>>, <<IntV(2), bob, Null>>}

WideDatasets == [cols : {ColsWide}, rows : SeqsUpTo(WideRowUniverse, MaxRows)]

\* Lists of distinct keys, as compare_datasets' lists of keys are.
KeyLists ==
    {l \in SeqsUpTo({<<"1">>, <<"2">>}, 2) :
        \A i, j \in DOMAIN l : i # j => l[i] # l[j]}

InitCells ==
    /\ pc = "cellsA"
    /\ srcA \in Datasets
    /\ srcB \in Datasets \cup WideDatasets
    /\ pk = ListV(<<c_id>>)
    /\ \E l \in KeyLists :
        cellrun = [differing_pks |-> l, map_a |-> EmptyMap, map_b |-> EmptyMap,
                   loop |-> CellStart(l)]
    /\ chunkA = 0 /\ chunkB = 0
    /\ scan = NoScan /\ maps = NoMaps /\ result = None
    /\ row = None /\ digest = None
    /\ JobIdle
    /\ call = None /\ migration = None /\ hist = None

CellsUnchanged ==
    UNCHANGED <<srcA, srcB, pk, ReconVars, HashVars, JobVars,
                call, migration, hist>>

\* Lines 24-29.
CellScanA ==
    /\ pc = "cellsA"
    /\ cellrun' = [cellrun EXCEPT
          !.map_a = CellMap(EmptyMap, to_dicts(srcA), pk,
                            Range(cellrun.differing_pks))]
    /\ pc' = "cellsB"
    /\ CellsUnchanged

\* Lines 31-36.
CellScanB ==
    /\ pc = "cellsB"
    /\ cellrun' = [cellrun EXCEPT
          !.map_b = CellMap(EmptyMap, to_dicts(srcB), pk,
                            Range(cellrun.differing_pks))]
    /\ pc' = "cellsLoop"
    /\ CellsUnchanged

\* Lines 39-53, one key.
CellNext ==
    /\ pc = "cellsLoop"
    /\ cellrun.loop.todo # <<>>
    /\ cellrun' = [cellrun EXCEPT
          !.loop = CellIter(cellrun.loop, cellrun.map_a, cellrun.map_b)]
    /\ UNCHANGED pc
    /\ CellsUnchanged

\* Line 55.
CellReturn ==
    /\ pc = "cellsLoop"
    /\ cellrun.loop.todo = <<>>
    /\ pc' = "cellsDone"
    /\ UNCHANGED cellrun
    /\ CellsUnchanged

NextCells == CellScanA \/ CellScanB \/ CellNext \/ CellReturn

SpecCells == InitCells /\ [][NextCells]_vars

\* The rows of a source whose key is k, in arrival order.
RowsWithKey(src, k) ==
    SelectSeq(to_dicts(src), LAMBDA r : pk_val(r, pk) = k)

\* The row a re-scan keeps for key k: the last one.
Rescanned(src, k) == RowsWithKey(src, k)[Len(RowsWithKey(src, k))]

Found(src, k) == RowsWithKey(src, k) # <<>>

\* The columns the returned list reports as differing for key k.
DiffCols(k) ==
    UNION {{e.differences[j].column : j \in DOMAIN e.differences} :
              e \in {x \in Range(cellrun.loop.diffs) : x.pk = k}}

\* C11: for each listed key found on both sides, a column that only B's row
\* has, with a non-null value there, is reported as a difference.
C11_UnionOfColumns ==
    pc = "cellsDone" =>
        \A k \in Range(cellrun.differing_pks) :
            (Found(srcA, k) /\ Found(srcB, k)) =>
                \A c \in Range(RowKeys(Rescanned(srcB, k))) :
                    (/\ ~HasCol(Rescanned(srcA, k), c)
                     /\ RowGet(Rescanned(srcB, k), c) # Null)
                    => c \in DiffCols(k)

\* C12: a listed key that a re-scan of A or of B does not find is skipped,
\* and every other listed key is still compared: the returned list holds,
\* in the order of differing_pks, exactly the found keys whose rows differ.
C12_LookupMissIsSkipped ==
    pc = "cellsDone" =>
        LET compared ==
                SelectSeq(cellrun.differing_pks,
                    LAMBDA k : /\ Found(srcA, k) /\ Found(srcB, k)
                               /\ \E c \in Range(RowKeys(Rescanned(srcA, k))) :
                                    ~RawEq(RowGet(Rescanned(srcA, k), c),
                                           RowGet(Rescanned(srcB, k), c)))
        IN  [i \in DOMAIN cellrun.loop.diffs |-> cellrun.loop.diffs[i].pk]
                = compared

\* A finished run whose first key was missing on one side and whose second
\* key was compared and reported.
C12_Witness ==
    /\ pc = "cellsDone"
    /\ Len(cellrun.differing_pks) = 2
    /\ ~(Found(srcA, cellrun.differing_pks[1])
         /\ Found(srcB, cellrun.differing_pks[1]))
    /\ Len(cellrun.loop.diffs) = 1
    /\ cellrun.loop.diffs[1].pk = cellrun.differing_pks[2]

-----------------------------------------------------------------------------
(* SpecValues: one call of compare_values *)

Hello == StrV(<<"H", "e", "l", "l", "o">>)
hello_padded == StrV(<<" ", "h", "e", "l", "l", "o", " ">>)
Text30 == StrV(<<"3", "0">>)
TextTrue == StrV(<<"t", "r", "u", "e">>)
TextDay == StrV(<<"2", "0", "2", "0", "-", "0", "1", "-", "0", "1">>)

\* 100.00000005
NearHundred == FloatV(FALSE, 100, 5)

ValueUniverse ==
    {Null, BoolV(TRUE), BoolV(FALSE), BigInt, ListV(<<IntV(1)>>),
     IntV(0), IntV(1), IntV(30), IntV(100), IntV(101), IntV(0 - 1),
     IntV(1000000), IntV(1000001),
     FloatV(FALSE, 1, 0), FloatV(FALSE, 100, 0), NearHundred,
     FloatV(FALSE, 101, 0), FloatV(FALSE, 0, Scale \div 2),
     Text30, StrV(<<"1">>), StrV(<<"1", ".", "0">>), StrV(<<"1", ",", "0">>),
     TextTrue, Hello, hello_padded, StrV(<<>>), TextDay, Bob, bob,
     DateV(20200101, 0, FALSE), DateV(20200101, 43200, FALSE),
     DateV(20200101, 0, TRUE)}

\* float_tol = 1e-6
LooseTol == [num |-> 1, den |-> 1000000]

Tolerances == {FloatTol, LooseTol}

InitValues ==
    /\ pc = "call"
    /\ call \in [expected : ValueUniverse, actual : ValueUniverse,
                 float_tol : Tolerances, ret : {None}]
    /\ srcA = None /\ srcB = None /\ pk = None
    /\ chunkA = 0 /\ chunkB = 0
    /\ scan = NoScan /\ maps = NoMaps /\ result = None
    /\ row = None /\ digest = None
    /\ JobIdle
    /\ cellrun = None /\ migration = None /\ hist = None

\* The call runs to its return, or to the exception that leaves it.
CompareValues ==
    /\ pc = "call"
    /\ call' = [call EXCEPT
          !.ret = compare_values(call.expected, call.actual, call.float_tol)]
    /\ pc' = "returned"
    /\ UNCHANGED <<srcA, srcB, pk, ReconVars, HashVars, JobVars,
                   cellrun, migration, hist>>

NextValues == CompareValues

SpecValues == InitValues /\ [][NextValues]_vars

Called(e, a) == pc = "returned" /\ call.expected = e /\ call.actual = a

Returned == pc = "returned" /\ ~IsRaise(call.ret)

\* A bool, and a number 0 or 1 of the same truth value.
BoolAndItsNumber(b, n) ==
    /\ b.t = "bool" /\ n.t \in {"int", "float"}
    /\ NumOf(n) = NumOf(b)

\* C13: compare_values(True, 1), and any boolean against the number 0 or 1
\* of its truth value, returns is_match true and has_type_mismatch true.
C13_BoolAgainstNumberFlagged ==
    (pc = "returned" /\ BoolAndItsNumber(call.expected, call.actual)) =>
        /\ ~IsRaise(call.ret)
        /\ call.ret.is_match
        /\ call.ret.has_type_mismatch

\* C14: compare_values("30", 30) returns is_match true, has_type_mismatch
\* true and the kind "exact" or "coerced_exact".
C14_NumericTextAgainstNumber ==
    Called(Text30, IntV(30)) =>
        /\ ~IsRaise(call.ret)
        /\ call.ret.is_match
        /\ call.ret.has_type_mismatch
        /\ call.ret.match_type \in {"exact", "coerced_exact"}

\* The classification of a value: bool, number, datetime, string, or, for
\* any other value, the name of its type.
Classification(v) ==
    IF try_bool(v) # None THEN "bool"
    ELSE IF try_num(v) # None THEN "number"
    ELSE IF try_date_iso(v) # None THEN "datetime"
    ELSE IF v.t = "str" THEN "string"
    ELSE TypeName(v)

\* C15: on every return path, has_type_mismatch is true exactly when the
\* classifications of the two sides differ.
C15_TypeMismatchIsClassDifference ==
    Returned =>
        (call.ret.has_type_mismatch
            <=> Classification(call.expected) # Classification(call.actual))

ParsesAsNumber(v) == ~IsRaise(try_num(v)) /\ try_num(v) # None

\* C16: two values that parse as numbers and are not raw-equal match, with
\* kind "numeric_tol", exactly when |a-b| / max(|a|,|b|,1.0) <= float_tol,
\* whatever the boolean, string and datetime rules would say; with 1e-6,
\* 100.0 matches 100.00000005 and does not match 101.0.
C16_NumericToleranceFirst ==
    (/\ pc = "returned"
     /\ ParsesAsNumber(call.expected) /\ ParsesAsNumber(call.actual)
     /\ ~RawEq(call.expected, call.actual)) =>
        LET a == try_num(call.expected)
            b == try_num(call.actual)
            within == ~MagLess(TolTimes(Denom(a, b), call.float_tol),
                               AbsDiff(a, b))
        IN  /\ ~IsRaise(call.ret)
            /\ call.ret.is_match <=> within
            /\ call.ret.match_type =
                  (IF within THEN "numeric_tol" ELSE "numeric_rel")
            /\ (/\ call.float_tol = LooseTol
                /\ call.expected = FloatV(FALSE, 100, 0)) =>
                  /\ call.actual = NearHundred => call.ret.is_match
                  /\ call.actual = FloatV(FALSE, 101, 0) => ~call.ret.is_match

\* compare_values(100.0, 100.00000005, 1e-6) has returned a numeric_tol match.
C16_Witness ==
    /\ Called(FloatV(FALSE, 100, 0), NearHundred)
    /\ call.float_tol = LooseTol
    /\ call.ret = Verdict(TRUE, FALSE, "numeric_tol")

PlainText(v) == v.t = "str" /\ try_bool(v) = None /\ try_num(v) = None

\* C17: compare_values("Hello", " hello ") matches with kind
\* "case_insensitive_exact"; two strings neither boolean-like nor numeric
\* match exactly when equal after strip() and lower(), and are otherwise a
\* "string_mismatch".
C17_CaseInsensitiveStrings ==
    /\ Called(Hello, hello_padded) =>
          /\ call.ret.is_match
          /\ call.ret.match_type = "case_insensitive_exact"
    /\ (pc = "returned" /\ PlainText(call.expected) /\ PlainText(call.actual))
          => /\ ~IsRaise(call.ret)
             /\ call.ret.is_match
                   <=> Lower(Strip(call.expected.v))
                          = Lower(Strip(call.actual.v))
             /\ ~call.ret.is_match => call.ret.match_type = "string_mismatch"

\* compare_values("Hello", " hello ") has returned.
C17_Witness ==
    /\ Called(Hello, hello_padded)
    /\ call.ret = Verdict(TRUE, FALSE, "case_insensitive_exact")

\* C18: compare_values returns a triple for every pair of values and never
\* raises.
C18_NeverRaises ==
    pc = "returned" =>
        /\ ~IsRaise(call.ret)
        /\ DOMAIN call.ret = {"is_match", "has_type_mismatch", "match_type"}

-----------------------------------------------------------------------------
(* normalize/schema_normalizer.py and compare_schemas.  A column (a dict)  *)
(* is a record over ColumnKeys whose missing keys hold Absent; a metadata  *)
(* dict is a function from the keys it has.  Canonical types, severities   *)
(* and finding codes are the code's literals.                              *)

Absent == [t |-> "absent"]

ColumnKeys == {"name", "dtype", "type", "nullable", "metadata", "original"}

\* A dict of the given keys and values, as a column.
Column(d) == [k \in ColumnKeys |-> IF k \in DOMAIN d THEN d[k] ELSE Absent]

\* col.get(k): None for a missing key.
Get(col, k) == IF col[k] = Absent THEN Null ELSE col[k]

\* m.get(k) on a metadata dict.
MetaGet(m, k) == IF k \in DOMAIN m.v THEN m.v[k] ELSE Null

\* bool(v) of a value.
IsTrue(v) ==
    CASE v.t = "bool" -> v.v
      [] v.t = "int" -> v.v # 0
      [] v.t = "str" -> v.v # <<>>
      [] OTHER -> FALSE

UpperChar(c) ==
    IF Ord("a") <= Ord(c) /\ Ord(c) <= Ord("z")
    THEN Alphabet[Ord(c) - (Ord("a") - Ord("A"))]
    ELSE c

\* s.upper()
Upper(s) == [i \in DOMAIN s |-> UpperChar(s[i])]

\* s.startswith(p)
StartsWith(s, p) == Len(p) <= Len(s) /\ SubSeq(s, 1, Len(p)) = p

\* Line 100 with endswith for `in`: a word counts only at the end of t.
ContainsAtEnd(s, p) ==
    Len(p) <= Len(s) /\ SubSeq(s, Len(s) - Len(p) + 1, Len(s)) = p

\* p in s
Contains(s, p) ==
    \E i \in 1..(Len(s) - Len(p) + 1) : SubSeq(s, i, i + Len(p) - 1) = p

\* The length of the longest run of digits of s that starts at position i.
RECURSIVE DigitRun(_, _)
DigitRun(s, i) ==
    IF i <= Len(s) /\ IsDigit(s[i]) THEN 1 + DigitRun(s, i + 1) ELSE 0

RECURSIVE SpaceRun(_, _)
SpaceRun(s, i) ==
    IF i <= Len(s) /\ s[i] = " " THEN 1 + SpaceRun(s, i + 1) ELSE 0

CharAt(s, i) == IF i \in DOMAIN s THEN s[i] ELSE ""

Word ==
    [decimal |-> <<"D", "E", "C", "I", "M", "A", "L">>,
     numeric |-> <<"N", "U", "M", "E", "R", "I", "C">>,
     number |-> <<"N", "U", "M", "B", "E", "R">>,
     varchar |-> <<"V", "A", "R", "C", "H", "A", "R">>,
     char |-> <<"C", "H", "A", "R">>,
     character |-> <<"C", "H", "A", "R", "A", "C", "T", "E", "R">>,
     string |-> <<"S", "T", "R", "I", "N", "G">>,
     text |-> <<"T", "E", "X", "T">>,
     bigint |-> <<"B", "I", "G", "I", "N", "T">>,
     smallint |-> <<"S", "M", "A", "L", "L", "I", "N", "T">>,
     tinyint |-> <<"T", "I", "N", "Y", "I", "N", "T">>,
     int |-> <<"I", "N", "T">>,
     double |-> <<"D", "O", "U", "B", "L", "E">>,
     float64 |-> <<"F", "L", "O", "A", "T", "6", "4">>,
     float |-> <<"F", "L", "O", "A", "T">>,
     real |-> <<"R", "E", "A", "L">>,
     bool |-> <<"B", "O", "O", "L">>,
     boolean |-> <<"B", "O", "O", "L", "E", "A", "N">>,
     timestamp |-> <<"T", "I", "M", "E", "S", "T", "A", "M", "P">>,
     tz |-> <<"T", "Z">>,
     date |-> <<"D", "A", "T", "E">>,
     time |-> <<"T", "I", "M", "E">>,
     json |-> <<"J", "S", "O", "N">>,
     struct |-> <<"S", "T", "R", "U", "C", "T">>,
     object |-> <<"O", "B", "J", "E", "C", "T">>,
     map |-> <<"M", "A", "P">>,
     array |-> <<"A", "R", "R", "A", "Y">>,
     binary |-> <<"B", "I", "N", "A", "R", "Y">>,
     bytea |-> <<"B", "Y", "T", "E", "A">>,
     bytes |-> <<"B", "Y", "T", "E", "S">>,
     unknown |-> <<"U", "N", "K", "N", "O", "W", "N">>]

\* re.match(r"(DECIMAL|NUMERIC|NUMBER)\((\d+),\s*(\d+)\)", t): the two
\* groups of digits as the metadata dict, or None.  A greedy \d+ takes
\* the whole run of digits, and no shorter one could be followed by "," or
\* by ")".
MatchDecimal(t) ==
    LET heads == {w \in {Word.decimal, Word.numeric, Word.number} : StartsWith(t, w)}
        try(w) ==
            LET p == Len(w) + 2
                np == DigitRun(t, p)
                s == p + np + 1 + SpaceRun(t, p + np + 1)
                ns == DigitRun(t, s)
            IN  IF /\ CharAt(t, Len(w) + 1) = "("
                   /\ np > 0 /\ CharAt(t, p + np) = ","
                   /\ ns > 0 /\ CharAt(t, s + ns) = ")"
                THEN [precision |->
                          IntV(DigitsToInt(SubSeq(t, p, p + np - 1))),
                      scale |->
                          IntV(DigitsToInt(SubSeq(t, s, s + ns - 1)))]
                ELSE None
    IN  IF \E w \in heads : try(w) # None
        THEN try(CHOOSE w \in heads : try(w) # None)
        ELSE None

\* re.match(r"(VARCHAR|CHAR|CHARACTER)\((\d+)\)", t): the digits as
\* metadata dict, or None.
MatchChar(t) ==
    LET heads == {w \in {Word.varchar, Word.char, Word.character} : StartsWith(t, w)}
        try(w) ==
            LET p == Len(w) + 2
                n == DigitRun(t, p)
            IN  IF /\ CharAt(t, Len(w) + 1) = "("
                   /\ n > 0 /\ CharAt(t, p + n) = ")"
                THEN [length |-> IntV(DigitsToInt(SubSeq(t, p, p + n - 1)))]
                ELSE None
    IN  IF \E w \in heads : try(w) # None
        THEN try(CHOOSE w \in heads : try(w) # None)
        ELSE None

\* A dict as a value.
DictV(d) == [t |-> "dict", v |-> d]

\* What _parse_type returns: the canonical type, a str, and the metadata.
Parsed(ctype, meta) == [type |-> StrV(ctype), meta |-> DictV(meta)]

\* An empty dict.
NoMeta == [k \in {} |-> Null]

\* The str literals of lines 67-69 and 125, in lower case.
Lit ==
    [with |-> <<"w", "i", "t", "h">>,
     none |-> <<"n", "o", "n", "e">>,
     true |-> <<"t", "r", "u", "e">>,
     false |-> <<"f", "a", "l", "s", "e">>,
     unknown |-> <<"u", "n", "k", "n", "o", "w", "n">>]

AnyIn(t, words) == \E w \in words : Contains(t, w)

\* Lines 85-144.
parse_type(raw) ==
    LET t == Strip(Upper(raw))
    IN  IF MatchDecimal(t) # None THEN Parsed(Word.decimal, MatchDecimal(t))
        ELSE IF \E w \in {Word.decimal, Word.numeric, Word.number} : StartsWith(t, w)
        THEN Parsed(Word.decimal, [precision |-> Null, scale |-> Null])
        ELSE IF MatchChar(t) # None THEN Parsed(Word.string, MatchChar(t))
        ELSE IF AnyIn(t, {Word.string, Word.text, Word.varchar, Word.char})
        THEN Parsed(Word.string, [length |-> Null])
        ELSE IF Contains(t, Word.bigint) THEN Parsed(Word.int, [bits |-> IntV(64)])
        ELSE IF Contains(t, Word.smallint) THEN Parsed(Word.int, [bits |-> IntV(16)])
        ELSE IF Contains(t, Word.tinyint) THEN Parsed(Word.int, [bits |-> IntV(8)])
        ELSE IF Contains(t, Word.int) THEN Parsed(Word.int, [bits |-> IntV(32)])
        ELSE IF AnyIn(t, {Word.double, Word.float64})
        THEN Parsed(Word.float, [bits |-> IntV(64)])
        ELSE IF AnyIn(t, {Word.float, Word.real})
        THEN Parsed(Word.float, [bits |-> IntV(32)])
        ELSE IF AnyIn(t, {Word.bool, Word.boolean}) THEN Parsed(Word.boolean, NoMeta)
        ELSE IF Contains(t, Word.timestamp)
        THEN Parsed(Word.timestamp,
                    [timezone |-> IF Contains(t, Word.tz)
                                  THEN StrV(Lit.with)
                                  ELSE StrV(Lit.none)])
        ELSE IF t = Word.date THEN Parsed(Word.date, NoMeta)
        ELSE IF t = Word.time THEN Parsed(Word.time, NoMeta)
        ELSE IF Contains(t, Word.json) THEN Parsed(Word.json, NoMeta)
        ELSE IF AnyIn(t, {Word.struct, Word.object, Word.map})
        THEN Parsed(Word.object, NoMeta)
        ELSE IF Contains(t, Word.array) THEN Parsed(Word.array, NoMeta)
        ELSE IF AnyIn(t, {Word.binary, Word.bytea, Word.bytes})
        THEN Parsed(Word.binary, NoMeta)
        ELSE Parsed(Word.unknown, [original_hint |-> StrV(t)])

\* Lines 67-69: the nullable flag as True, False or "unknown"; a value that
\* is no str is kept as it is.
NormalNullable(col) ==
    LET nullable == IF col.nullable = Absent THEN StrV(Lit.unknown) ELSE col.nullable
    IN  IF nullable.t = "str"
        THEN CASE Lower(nullable.v) = Lit.true -> BoolV(TRUE)
               [] Lower(nullable.v) = Lit.false -> BoolV(FALSE)
               [] OTHER -> StrV(Lit.unknown)
        ELSE nullable

\* Line 66: col.get("dtype") or col.get("type") or "UNKNOWN"
RawType(col) ==
    IF IsTrue(Get(col, "dtype")) THEN Get(col, "dtype")
    ELSE IF IsTrue(Get(col, "type")) THEN Get(col, "type")
    ELSE StrV(Word.unknown)

\* Lines 62-79, for a raw type that is a str.
normalize_column(col) ==
    LET raw == RawType(col)
        parsed == parse_type(raw.v)
    IN  Column([name |-> Get(col, "name"),
                type |-> parsed.type,
                nullable |-> NormalNullable(col),
                metadata |-> parsed.meta,
                original |-> raw])

\* Lines 22-32.
normalize_schema(raw_schema) ==
    [columns |-> [i \in DOMAIN raw_schema.columns |->
                     normalize_column(raw_schema.columns[i])],
     warnings |-> <<>>]

\* Line 194.
Msg(severity, code, msg, col) ==
    [severity |-> severity, code |-> code, message |-> msg, column |-> col]

\* `x and y`, as a truth value.
Both(x, y) == IsTrue(x) /\ IsTrue(y)

\* Line 164.
DriftSeverity(a_nullable, b_nullable) ==
    IF IsTrue(a_nullable) /\ ~IsTrue(b_nullable) THEN "error" ELSE "warning"

\* Lines 162-188: the checks of a column whose two types are equal.
ColumnChecks(a, b) ==
    LET name == a.name
        m1 == IF a.metadata = Absent THEN DictV(NoMeta) ELSE a.metadata
        m2 == IF b.metadata = Absent THEN DictV(NoMeta) ELSE b.metadata
        shrinks(k) == /\ Both(MetaGet(m1, k), MetaGet(m2, k))
                      /\ MetaGet(m2, k).v < MetaGet(m1, k).v
        change(k) == <<name, k, MetaGet(m1, k), MetaGet(m2, k)>>
        when(cond, f) == IF cond THEN <<f>> ELSE <<>>
    IN  IF a.nullable = Absent \/ b.nullable = Absent
        THEN Raises("KeyError")
        ELSE [out |->
            when(~RawEq(a.nullable, b.nullable),
                 Msg(DriftSeverity(a.nullable, b.nullable),
                     "NULLABILITY_CHANGE",
                     <<name, "nullability", a.nullable, b.nullable>>, name))
            \o when(a.type = StrV(Word.string) /\ shrinks("length"),
                    Msg("error", "STRING_TRUNCATION", change("length"), name))
            \o when(a.type = StrV(Word.decimal) /\ shrinks("precision"),
                    Msg("error", "DECIMAL_PRECISION_LOSS",
                        change("precision"), name))
            \o when(a.type = StrV(Word.decimal) /\ shrinks("scale"),
                    Msg("error", "DECIMAL_SCALE_LOSS", change("scale"), name))
            \o when(a.type = StrV(Word.int) /\ shrinks("bits"),
                    Msg("error", "INT_WIDTH_LOSS", change("bits"), name))
            \o when(/\ a.type = StrV(Word.timestamp)
                    /\ ~RawEq(MetaGet(m1, "timezone"),
                              MetaGet(m2, "timezone")),
                    Msg("warning", "TIMEZONE_CHANGE", change("timezone"),
                        name))]

\* Line 159, the finding of two types that differ.
TypeMismatch(a, b) ==
    Msg("error", "TYPE_MISMATCH", <<a.name, a.type, b.type>>, a.name)

\* Lines 150-188 without the `return out` of line 160: the other checks
\* follow the TYPE_MISMATCH finding.
CompareColumnsThrough(a, b) ==
    IF a.name = Absent \/ a.type = Absent \/ b.type = Absent
    THEN Raises("KeyError")
    ELSE LET rest == ColumnChecks(a, b)
         IN  IF IsRaise(rest) THEN rest
             ELSE IF ~RawEq(a.type, b.type)
             THEN [out |-> <<TypeMismatch(a, b)>> \o rest.out]
             ELSE rest

\* Lines 150-188: the findings of one shared column, or the KeyError of a
\* column dict that lacks "name", "type" or "nullable".
compare_columns(a, b) ==
    IF a.name = Absent \/ a.type = Absent \/ b.type = Absent
    THEN Raises("KeyError")
    ELSE IF ~RawEq(a.type, b.type)
    THEN [out |-> <<TypeMismatch(a, b)>>]
    ELSE ColumnChecks(a, b)

\* Lines 42-43: {c["name"]: c for c in columns}; a column without a name
\* raises KeyError.
Named(cols) == \A i \in DOMAIN cols : cols[i].name # Absent

RECURSIVE NameMap(_, _)
NameMap(m, cols) ==
    IF cols = <<>> THEN m
    ELSE NameMap(Put(m, Head(cols).name, Head(cols)), Tail(cols))

\* Lines 53-54: the shared columns, in the order the set yields them.
RECURSIVE SharedFindings(_, _, _)
SharedFindings(order, src_map, dst_map) ==
    IF order = <<>> THEN [out |-> <<>>]
    ELSE LET f == compare_columns(src_map[Head(order)], dst_map[Head(order)])
             rest == SharedFindings(Tail(order), src_map, dst_map)
         IN  IF IsRaise(f) THEN f
             ELSE IF IsRaise(rest) THEN rest
             ELSE [out |-> f.out \o rest.out]

\* Lines 34-56; the three orders are those of the three sets of names.
validate_migration(src_norm, dst_norm, missing, extra, shared) ==
    LET src_map == NameMap(EmptyMap, src_norm.columns)
        dst_map == NameMap(EmptyMap, dst_norm.columns)
        found == SharedFindings(shared, src_map, dst_map)
    IN  IF ~Named(src_norm.columns) \/ ~Named(dst_norm.columns)
        THEN Raises("KeyError")
        ELSE IF IsRaise(found) THEN found
        ELSE [findings |->
                [i \in DOMAIN missing |->
                    Msg("error", "COLUMN_MISSING", <<missing[i], "missing">>,
                        missing[i])]
                \o [i \in DOMAIN extra |->
                    Msg("warning", "EXTRA_COLUMN", <<extra[i], "extra">>,
                        extra[i])]
                \o found.out]

\* schema_comparator.py lines 12-14.
is_normalized(raw_schema) ==
    raw_schema.columns # <<>> /\ raw_schema.columns[1].type # Absent

\* schema_comparator.py lines 39-47: one side's normalized schema.
normalized(raw_schema) ==
    IF is_normalized(raw_schema)
    THEN [columns |-> raw_schema.columns, warnings |-> <<>>]
    ELSE normalize_schema(raw_schema)

\* Counter(...) of one field of the findings.
CountBy(findings, field) ==
    [v \in {findings[i][field] : i \in DOMAIN findings} |->
        Cardinality({i \in DOMAIN findings : findings[i][field] = v})]

\* schema_comparator.py lines 50-76: the report; no model has more than ten
\* finding codes, so most_common(10) keeps them all.
schema_report(norm_a, norm_b, findings) ==
    [normalized_a |-> norm_a,
     normalized_b |-> norm_b,
     warnings |-> [a |-> norm_a.warnings, b |-> norm_b.warnings],
     findings |-> findings,
     summary |-> [total_columns_a |-> Len(norm_a.columns),
                  total_columns_b |-> Len(norm_b.columns),
                  total_findings |-> Len(findings),
                  severity_counts |-> CountBy(findings, "severity"),
                  top_issue_counts |-> CountBy(findings, "code")]]

-----------------------------------------------------------------------------
(* SpecSchema: compare_schemas on two raw schemas *)

\* A raw column as an adapter returns it: its name, its raw type under the
\* key "dtype" or "type", and its nullable flag (Absent: no such key).
RawCol(name, key, text, nullable) ==
    [k \in ColumnKeys |->
        CASE k = "name" -> StrV(name)
          [] k = key -> StrV(text)
          [] k = "nullable" -> nullable
          [] OTHER -> Absent]

TypeTexts ==
    {<<"D", "E", "C", "I", "M", "A", "L", "(", "1", "0", ",", "2", ")">>,
     <<"D", "E", "C", "I", "M", "A", "L", "(", "8", ",", "2", ")">>,
     <<"D", "E", "C", "I", "M", "A", "L", "(", "8", ",", "3", ")">>,
     <<"D", "E", "C", "I", "M", "A", "L", "(", "1", "0", ",", "0", ")">>,
     <<"n", "u", "m", "e", "r", "i", "c", "(", "1", "0", ",", " ", "2", ")">>,
     Word.decimal,
     <<"V", "A", "R", "C", "H", "A", "R", "(", "5", "0", ")">>,
     <<"V", "A", "R", "C", "H", "A", "R", "(", "2", "0", ")">>,
     Word.text, Word.bigint, Word.int, Word.double, Word.boolean,
     Word.date, Word.timestamp,
     <<"T", "I", "M", "E", "S", "T", "A", "M", "P", "_", "T", "Z">>,
     <<"I", "N", "T", " ", "A", "R", "R", "A", "Y">>,
     <<"G", "E", "O", "G", "R", "A", "P", "H", "Y">>}

\* Raw types that exercise the other rules of _parse_type; a column so
\* typed is nullable.
MoreTypeTexts ==
    {<<"V", "A", "R", "C", "H", "A", "R", "(", "0", ")">>,
     <<"V", "A", "R", "C", "H", "A", "R", "(", "5", ")">>,
     Word.time, Word.json, Word.struct, Word.array, Word.bytea, Word.real,
     <<" ", "d", "a", "t", "e", " ">>,
     <<"D", "A", "T", "E", "T", "I", "M", "E">>,
     <<"J", "S", "O", "N", " ", "A", "R", "R", "A", "Y">>,
     <<"C", "H", "A", "R", "(", "x", ")">>}

NullableFlags ==
    {Absent, BoolV(TRUE), BoolV(FALSE), StrV(Lit.unknown),
     StrV(<<"T", "R", "U", "E">>)}

\* The other column of a two-column schema.
NameCol == RawCol(c_name, "dtype", Word.int, BoolV(TRUE))

RawSchemas ==
    LET one == {RawCol(c_id, "dtype", t, n) :
                   t \in TypeTexts, n \in NullableFlags}
        typed == {RawCol(c_id, "type", t, n) :
                     t \in {Word.int, Word.bigint, Word.number},
                     n \in {Absent, BoolV(TRUE)}}
        more == {RawCol(c_id, "dtype", t, BoolV(TRUE)) : t \in MoreTypeTexts}
    IN  {[columns |-> <<>>], [columns |-> <<NameCol>>]}
        \cup {[columns |-> <<c>>] : c \in one \cup typed \cup more}
        \cup {[columns |-> <<c, NameCol>>] :
                 c \in {RawCol(c_id, "dtype", t, BoolV(TRUE)) :
                           t \in {Word.int, Word.bigint}}}

InitSchema ==
    /\ pc = "normalizeA"
    /\ \E a \in RawSchemas, b \in RawSchemas :
        migration = [schema_a |-> a, schema_b |-> b, norm_a |-> None,
                     norm_b |-> None, report |-> None]
    /\ srcA = None /\ srcB = None /\ pk = None
    /\ chunkA = 0 /\ chunkB = 0
    /\ scan = NoScan /\ maps = NoMaps /\ result = None
    /\ row = None /\ digest = None
    /\ JobIdle
    /\ call = None /\ cellrun = None /\ hist = None

SchemaUnchanged ==
    UNCHANGED <<srcA, srcB, pk, ReconVars, HashVars, JobVars,
                call, cellrun, hist>>

\* schema_comparator.py lines 39-42.
NormalizeA ==
    /\ pc = "normalizeA"
    /\ migration' =
          [migration EXCEPT !.norm_a = normalized(migration.schema_a)]
    /\ pc' = "normalizeB"
    /\ SchemaUnchanged

\* schema_comparator.py lines 44-47.
NormalizeB ==
    /\ pc = "normalizeB"
    /\ migration' =
          [migration EXCEPT !.norm_b = normalized(migration.schema_b)]
    /\ pc' = "validate"
    /\ SchemaUnchanged

ColumnNames(norm) == {norm.columns[i].name : i \in DOMAIN norm.columns}

\* schema_comparator.py lines 53-76: validate_migration, then the report;
\* an exception of validate_migration leaves compare_schemas.
Validate ==
    /\ pc = "validate"
    /\ LET names_a == ColumnNames(migration.norm_a)
           names_b == ColumnNames(migration.norm_b)
       IN  \E missing \in Orders(names_a \ names_b),
              extra \in Orders(names_b \ names_a),
              shared \in Orders(names_a \cap names_b) :
              LET v == validate_migration(migration.norm_a, migration.norm_b,
                                          missing, extra, shared)
              IN  IF IsRaise(v)
                  THEN /\ migration' = [migration EXCEPT !.report = v]
                       /\ pc' = "schemaRaised"
                  ELSE /\ migration' = [migration EXCEPT !.report =
                              schema_report(migration.norm_a, migration.norm_b,
                                            v.findings)]
                       /\ pc' = "schemaDone"
    /\ SchemaUnchanged

NextSchema == NormalizeA \/ NormalizeB \/ Validate

SpecSchema == InitSchema /\ [][NextSchema]_vars

\* The column a schema's name map holds for a name: the last one so named.
ColNamed(norm, n) ==
    norm.columns[CHOOSE i \in DOMAIN norm.columns :
                    /\ norm.columns[i].name = n
                    /\ \A j \in DOMAIN norm.columns :
                          norm.columns[j].name = n => j <= i]

SharedNames == ColumnNames(migration.norm_a) \cap ColumnNames(migration.norm_b)

\* The findings of the report with a given code for a given column.
FindingsFor(code, n) ==
    {i \in DOMAIN migration.report.findings :
        /\ migration.report.findings[i].code = code
        /\ migration.report.findings[i].column = n}

Emits(severity, code, n) ==
    \E i \in FindingsFor(code, n) :
        migration.report.findings[i].severity = severity

IsDecimalWithBoth(col) ==
    /\ col.type = StrV(Word.decimal)
    /\ col.metadata # Absent
    /\ MetaGet(col.metadata, "precision") # Null
    /\ MetaGet(col.metadata, "scale") # Null

\* C19: for a column that is DECIMAL on both sides with a precision and a
\* scale on both sides, a smaller target precision yields the error
\* DECIMAL_PRECISION_LOSS and, independently, a smaller target scale (0
\* included) yields the error DECIMAL_SCALE_LOSS.
C19_DecimalLossFindings ==
    pc = "schemaDone" =>
        \A n \in SharedNames :
            LET a == ColNamed(migration.norm_a, n)
                b == ColNamed(migration.norm_b, n)
                shrinks(k) ==
                    MetaGet(b.metadata, k).v < MetaGet(a.metadata, k).v
            IN  (IsDecimalWithBoth(a) /\ IsDecimalWithBoth(b)) =>
                    /\ shrinks("precision")
                          => Emits("error", "DECIMAL_PRECISION_LOSS", n)
                    /\ shrinks("scale")
                          => Emits("error", "DECIMAL_SCALE_LOSS", n)

Tristate == {BoolV(TRUE), BoolV(FALSE), StrV(Lit.unknown)}

\* C20: for a column of one canonical type on both sides whose nullable
\* flags, among true, false and unknown, differ, there is exactly one
\* NULLABILITY_CHANGE finding, an error for true -> false and a warning for
\* every other change.
C20_NullabilityChangeSeverity ==
    pc = "schemaDone" =>
        \A n \in SharedNames :
            LET a == ColNamed(migration.norm_a, n)
                b == ColNamed(migration.norm_b, n)
            IN  (/\ a.type = b.type
                 /\ a.nullable \in Tristate /\ b.nullable \in Tristate
                 /\ a.nullable # b.nullable) =>
                    /\ Cardinality(FindingsFor("NULLABILITY_CHANGE", n)) = 1
                    /\ Emits(IF a.nullable = BoolV(TRUE)
                                /\ b.nullable = BoolV(FALSE)
                             THEN "error" ELSE "warning",
                             "NULLABILITY_CHANGE", n)

\* The findings of the report for a given column, whatever their code.
FindingsOf(n) ==
    {i \in DOMAIN migration.report.findings :
        migration.report.findings[i].column = n}

\* C21: a column present in both schemas whose canonical types differ gets
\* exactly one finding, TYPE_MISMATCH with severity error, and so no
\* nullability, length, precision, scale, width or timezone finding.
C21_TypeMismatchStopsColumn ==
    pc = "schemaDone" =>
        \A n \in SharedNames :
            ColNamed(migration.norm_a, n).type
                    # ColNamed(migration.norm_b, n).type =>
                /\ Cardinality(FindingsOf(n)) = 1
                /\ Emits("error", "TYPE_MISMATCH", n)

\* The types differ, and so do the nullable flags: a column that would
\* have a second finding if its checks went on.
C21_Witness ==
    /\ pc = "schemaDone"
    /\ \E n \in SharedNames :
          LET a == ColNamed(migration.norm_a, n)
              b == ColNamed(migration.norm_b, n)
          IN  /\ a.type = StrV(Word.string) /\ b.type = StrV(Word.int)
              /\ a.nullable = BoolV(TRUE) /\ b.nullable = BoolV(FALSE)
              /\ Emits("error", "TYPE_MISMATCH", n)

\* The length of a normalized column's metadata, or Null.
LengthOf(col) ==
    IF col.metadata = Absent THEN Null ELSE MetaGet(col.metadata, "length")

\* C22: for a column that is STRING on both sides, STRING_TRUNCATION (an
\* error) is emitted exactly when both lengths are non-null and the target
\* length is smaller than the source length; with a null length on either
\* side there is no such finding.
C22_StringTruncation ==
    pc = "schemaDone" =>
        \A n \in SharedNames :
            LET a == ColNamed(migration.norm_a, n)
                b == ColNamed(migration.norm_b, n)
                la == LengthOf(a)
                lb == LengthOf(b)
            IN  (a.type = StrV(Word.string) /\ b.type = StrV(Word.string)) =>
                    IF la # Null /\ lb # Null
                    THEN Emits("error", "STRING_TRUNCATION", n)
                            <=> lb.v < la.v
                    ELSE FindingsFor("STRING_TRUNCATION", n) = {}

\* The canonical types.
CanonicalTypes ==
    {StrV(w) : w \in {Word.int, Word.float, Word.decimal, Word.string,
                      Word.boolean, Word.date, Word.time, Word.timestamp,
                      Word.json, Word.object, Word.array, Word.binary,
                      Word.unknown}}

\* C27: every column of normalized_a and normalized_b in the report has a
\* canonical type, whether the raw schema carried the raw type under
\* "dtype" or under "type".
C27_NormalizedTypesAreCanonical ==
    pc = "schemaDone" =>
        \A norm \in {migration.report.normalized_a,
                     migration.report.normalized_b} :
            \A i \in DOMAIN norm.columns :
                norm.columns[i].type \in CanonicalTypes

\* The word w occurs in the text t; the word w begins the text t.
Has(t, w) ==
    \E i \in 0..Len(t) :
        Len(w) + i <= Len(t) /\ \A j \in 1..Len(w) : t[i + j] = w[j]
Begins(t, w) == Len(w) <= Len(t) /\ \A j \in 1..Len(w) : t[j] = w[j]

\* The documented rule table: the canonical type of the first rule, in the
\* documented order, that the text t matches.
FirstRule(t) ==
    IF \E w \in {Word.decimal, Word.numeric, Word.number} : Begins(t, w)
    THEN Word.decimal
    ELSE IF \E w \in {Word.string, Word.text, Word.varchar, Word.char} :
               Has(t, w)
    THEN Word.string
    ELSE IF Has(t, Word.int) THEN Word.int
    ELSE IF \E w \in {Word.double, Word.float, Word.real} : Has(t, w)
    THEN Word.float
    ELSE IF Has(t, Word.bool) THEN Word.boolean
    ELSE IF Has(t, Word.timestamp) THEN Word.timestamp
    ELSE IF t = Word.date THEN Word.date
    ELSE IF t = Word.time THEN Word.time
    ELSE IF Has(t, Word.json) THEN Word.json
    ELSE IF \E w \in {Word.struct, Word.object, Word.map} : Has(t, w)
    THEN Word.object
    ELSE IF Has(t, Word.array) THEN Word.array
    ELSE IF \E w \in {Word.binary, Word.bytea, Word.bytes} : Has(t, w)
    THEN Word.binary
    ELSE Word.unknown

\* A column as _normalize_column produced it agrees with the rule table.
ByTheTable(c) ==
    LET t == Strip(Upper(c.original.v))
    IN  /\ c.type = StrV(FirstRule(t))
        /\ c.type = StrV(Word.unknown) =>
              MetaGet(c.metadata, "original_hint") = StrV(t)

ParsedOk(norm) ==
    norm # None =>
        \A i \in DOMAIN norm.columns :
            norm.columns[i].original # Absent => ByTheTable(norm.columns[i])

\* C28: the type of a normalized column is that of the first rule, in the
\* documented order, that its upper-cased raw type matches, never that of
\* a later rule; a raw type that matches no rule is UNKNOWN and keeps its
\* text as the hint.
C28_FirstMatchingRuleWins ==
    migration # None =>
        ParsedOk(migration.norm_a) /\ ParsedOk(migration.norm_b)

\* "INT ARRAY" has become INT on one side, and a text that matches no rule
\* has become UNKNOWN on the other.
C28_Witness ==
    /\ pc = "validate"
    /\ \E c \in Range(migration.norm_a.columns) :
          /\ c.original = StrV(<<"I", "N", "T", " ", "A", "R", "R", "A", "Y">>)
          /\ c.type = StrV(Word.int)
    /\ \E c \in Range(migration.norm_b.columns) :
          /\ c.original = StrV(<<"G", "E", "O", "G", "R", "A", "P", "H", "Y">>)
          /\ c.type = StrV(Word.unknown)

-----------------------------------------------------------------------------
(* SpecDetect: compare_datasets with pk_cols None, on frames of three      *)
(* columns in which no column, one column or only a pair of columns is     *)
(* unique.  Both scans use the one chunk_size compare_datasets was given.  *)

\* The most rows of the dataset scanned with key detection.
MaxFrameRows == 3

DetectRows ==
    {<<IntV(x), IntV(y), IntV(z)>> : x \in {1, 2}, y \in {1, 2}, z \in {1, 2}}

DetectFrames ==
    [cols : {ColsWide}, rows : SeqsUpTo(DetectRows, MaxFrameRows)]

InitDetect ==
    /\ pc = "scanA"
    /\ srcA \in DetectFrames
    /\ srcB \in [cols : {ColsWide}, rows : SeqsUpTo(DetectRows, 1)]
    /\ pk = None
    /\ chunkA \in 1..MaxFrameRows
    /\ chunkB = chunkA
    /\ scan = [st |-> ScanStart(pk), todo |-> iter_slices(srcA, chunkA)]
    /\ maps = NoMaps
    /\ result = None
    /\ row = None /\ digest = None
    /\ JobIdle /\ UnitIdle

SpecDetect == InitDetect /\ [][NextRecon]_vars

\* A step of the loop at line 56 that is not the first of its scan.
LaterChunk ==
    /\ pc' = pc
    /\ pc \in {"scanA", "scanB"}
    /\ scan.st.total_rows > 0
    /\ scan'.st # scan.st

\* C23: in a scan with no explicit key, the key columns the rows are keyed
\* by (or None: each row by its own digest) are settled by the first chunk;
\* no later chunk changes them.
C23_KeyingSchemeSettledByFirstChunk ==
    [][(pk = None /\ LaterChunk) => scan'.st.pk_cols = scan.st.pk_cols]_vars

\* The rows of the first chunk of A's scan: the sample of the detection.
FirstSample == Take(srcA.rows, chunkA)

\* The columns js (indices, in order) are jointly unique over the sample.
JointlyUnique(sample, js) ==
    \A i1, i2 \in DOMAIN sample :
        (\A k \in DOMAIN js : sample[i1][js[k]] = sample[i2][js[k]])
            => i1 = i2

\* js comes before ks: first index ascending, then the second.
Before(js, ks) ==
    js[1] < ks[1] \/ (js[1] = ks[1] /\ js[Len(js)] <= ks[Len(ks)])

FirstUnique(sample, candidates) ==
    CHOOSE js \in candidates :
        /\ JointlyUnique(sample, js)
        /\ \A ks \in candidates : JointlyUnique(sample, ks) => Before(js, ks)

ExpectedKey(cols, sample) ==
    LET n == Len(cols)
        singles == {<<j>> : j \in 1..n}
        pairs == {<<i, j>> : i \in 1..n, j \in 1..n} \ {<<j, j>> : j \in 1..n}
        ordered == {p \in pairs : p[1] < p[2]}
        named(js) == ListV([k \in DOMAIN js |-> cols[js[k]]])
    IN  IF \E js \in singles : JointlyUnique(sample, js)
        THEN named(FirstUnique(sample, singles))
        ELSE IF \E js \in ordered : JointlyUnique(sample, js)
        THEN named(FirstUnique(sample, ordered))
        ELSE None

\* A's scan with pk_cols None has taken its first chunk and no other.
FirstChunkTaken ==
    /\ pc = "scanA"
    /\ pk = None
    /\ scan.st.total_rows > 0
    /\ scan.st.total_rows = Len(FirstSample)

-----------------------------------------------------------------------------
(* report/history_manager.py: save_history, called at the end of two       *)
(* /compare jobs that run at once (`def compare` is no coroutine, so each  *)
(* request runs in its own worker thread).  Time is counted in days.       *)

RETENTION_DAYS == 60

\* The entries history.json holds before the two jobs save theirs.
MaxOldEntries == 2

Jobs == {1, 2}

\* main.py lines 344-353: what a job saves, as far as save_history reads it.
history_entry(job_id, now) == [job_id |-> job_id, timestamp |-> now]

\* Lines 15-22: the list in the file; [] for a file that does not exist or
\* does not parse.
load_history(file) == IF file.state = "written" THEN file.entries ELSE <<>>

\* Lines 30-50: the entries to keep, and the report files left.
prune(history, now, reports) ==
    LET cutoff == now - RETENTION_DAYS
        old == {history[i].job_id :
                   i \in {k \in DOMAIN history : history[k].timestamp < cutoff}}
    IN  [keep |-> SelectSeq(history, LAMBDA e : e.timestamp >= cutoff),
         reports |-> reports \ old]

\* An entry whose retention has run out, and one saved today.
OldEntries(now) == {history_entry(8, 0), history_entry(9, now)}

InitHistory ==
    /\ pc = "history"
    /\ \E now \in {RETENTION_DAYS + 1},
          state \in {"missing", "written"} :
          \E entries \in SeqsUpTo(OldEntries(now), MaxOldEntries) :
              /\ state = "missing" => entries = <<>>
              /\ hist = [now |-> now,
                         file |-> [state |-> state, entries |-> entries],
                         reports |-> {entries[i].job_id :
                                         i \in DOMAIN entries} \cup Jobs,
                         at |-> [j \in Jobs |-> "load"],
                         history |-> [j \in Jobs |-> <<>>]]
    /\ srcA = None /\ srcB = None /\ pk = None
    /\ chunkA = 0 /\ chunkB = 0
    /\ scan = NoScan /\ maps = NoMaps /\ result = None
    /\ row = None /\ digest = None
    /\ JobIdle
    /\ call = None /\ cellrun = None /\ migration = None

HistoryUnchanged ==
    UNCHANGED <<pc, srcA, srcB, pk, ReconVars, HashVars, JobVars,
                call, cellrun, migration>>

\* Line 55.
LoadHistory(j) ==
    /\ pc = "history"
    /\ hist.at[j] = "load"
    /\ hist' = [hist EXCEPT !.history[j] = load_history(hist.file),
                            !.at[j] = "prune"]
    /\ HistoryUnchanged

\* Lines 56-57: the job's entry is appended and the list pruned; the
\* report files of the pruned entries are removed.
PruneHistory(j) ==
    /\ pc = "history"
    /\ hist.at[j] = "prune"
    /\ LET p == prune(Append(hist.history[j], history_entry(j, hist.now)),
                      hist.now, hist.reports)
       IN  hist' = [hist EXCEPT !.history[j] = p.keep,
                                !.reports = p.reports,
                                !.at[j] = "open"]
    /\ HistoryUnchanged

\* Line 26: open(HISTORY_FILE, "w") leaves the file empty.
OpenHistoryFile(j) ==
    /\ pc = "history"
    /\ hist.at[j] = "open"
    /\ hist' = [hist EXCEPT !.file = [state |-> "empty", entries |-> <<>>],
                            !.at[j] = "dump"]
    /\ HistoryUnchanged

\* Line 27, and the file is closed.
DumpHistory(j) ==
    /\ pc = "history"
    /\ hist.at[j] = "dump"
    /\ hist' = [hist EXCEPT
          !.file = [state |-> "written", entries |-> hist.history[j]],
          !.at[j] = "saved"]
    /\ HistoryUnchanged

NextHistory ==
    \E j \in Jobs :
        \/ LoadHistory(j)
        \/ PruneHistory(j)
        \/ OpenHistoryFile(j)
        \/ DumpHistory(j)

SpecHistory == InitHistory /\ [][NextHistory]_vars

Stored(j) ==
    \E i \in DOMAIN hist.file.entries : hist.file.entries[i].job_id = j

\* C24: once both save_history calls have finished, whatever the
\* interleaving of their steps, the stored history holds the entry of
\* each of the two jobs.
C24_NoHistoryEntryLost ==
    (hist # None /\ \A j \in Jobs : hist.at[j] = "saved") =>
        \A j \in Jobs : Stored(j)

-----------------------------------------------------------------------------
(* SpecRescan: compare_cells called, as main.py calls it, with the key     *)
(* columns and the changed list of compare_datasets on the same two        *)
(* sources, which return at the re-scan the rows they returned before.     *)
(* Keys of one and of two columns, with a null in a key column.            *)

KeyedRows ==
    {<<IntV(1), Null, IntV(1)>>, <<IntV(1), Null, IntV(2)>>,
     <<IntV(2), Bob, IntV(1)>>, <<IntV(2), Bob, IntV(2)>>}

KeyedFrames == [cols : {ColsWide}, rows : SeqsUpTo(KeyedRows, MaxRows)]

InitRescan ==
    /\ pc = "cellsA"
    /\ srcA \in KeyedFrames
    /\ srcB \in KeyedFrames
    /\ pk \in {ListV(<<c_id>>), ListV(<<c_name, c_id>>), ListV(<<c_zz>>)}
    /\ LET ma == prepare_pk_and_hash(srcA, pk, DefaultChunk)
           mb == prepare_pk_and_hash(srcB, pk, DefaultChunk)
       IN  \E order \in Orders(ChangedKeys(ma.mapping, mb.mapping)) :
              LET l == compare_datasets(ma, mb, order).lists.changed
              IN  cellrun = [differing_pks |-> l, map_a |-> EmptyMap,
                             map_b |-> EmptyMap, loop |-> CellStart(l)]
    /\ chunkA = 0 /\ chunkB = 0
    /\ scan = NoScan /\ maps = NoMaps /\ result = None
    /\ row = None /\ digest = None
    /\ JobIdle
    /\ call = None /\ migration = None /\ hist = None

SpecRescan == InitRescan /\ [][NextCells]_vars

\* The keys of the changed list that the reconciliation gives the rows of
\* a source.
ReconKeys(src) ==
    {pk_val(r, pk) : r \in Range(to_dicts(src))}
        \cap Range(cellrun.differing_pks)

\* C25: the key of a row at the re-scan is its key at the reconciliation,
\* so each re-scanned map holds the changed keys of its source, and every
\* key of the changed list is found in both maps and compared: none is
\* skipped.
C25_RescanKeyIsReconciliationKey ==
    /\ pc \in {"cellsB", "cellsLoop", "cellsDone"} =>
          DOMAIN cellrun.map_a = ReconKeys(srcA)
    /\ pc \in {"cellsLoop", "cellsDone"} =>
          DOMAIN cellrun.map_b = ReconKeys(srcB)
    /\ pc = "cellsDone" =>
          \A k \in Range(cellrun.differing_pks) :
              /\ k \in DOMAIN cellrun.map_a
              /\ k \in DOMAIN cellrun.map_b
              /\ \E i \in DOMAIN cellrun.loop.diffs :
                    cellrun.loop.diffs[i].pk = k

\* A changed key of two columns, the first of them null, was found on both
\* sides and compared.
C25_Witness ==
    /\ pc = "cellsDone"
    /\ pk = ListV(<<c_name, c_id>>)
    /\ cellrun.differing_pks = <<<<"N", "U", "L", "L", "|", "1">>>>
    /\ Len(cellrun.loop.diffs) = 1

-----------------------------------------------------------------------------
(* Chunking (SpecRecon) *)

\* What the scan of src returns when its rows come in chunks of c rows.
ScanIn(src, c) == prepare_pk_and_hash(src, pk, c)

\* C29: with an explicit key, the map and the row count of each scan, and
\* the result of compare_datasets, are those of every other chunking of
\* the same rows of A and of B.  (The order in which the set of shared keys
\* yields the changed keys does not come from the chunking; it is taken as
\* it was.)
C29_ChunkingDoesNotMatter ==
    pk # None =>
        /\ pc \in {"scanB", "classify", "done"} =>
              \A c \in ChunkSizes : maps.a = ScanIn(srcA, c)
        /\ pc \in {"classify", "done"} =>
              \A c \in ChunkSizes : maps.b = ScanIn(srcB, c)
        /\ pc = "done" =>
              \A ca, cb \in ChunkSizes :
                  LET ma == ScanIn(srcA, ca)
                      mb == ScanIn(srcB, cb)
                  IN  /\ Range(result.lists.changed)
                            = ChangedKeys(ma.mapping, mb.mapping)
                      /\ result
                            = compare_datasets(ma, mb, result.lists.changed)

\* A was scanned in two chunks of one row, B in one chunk of two, with an
\* explicit key, and a key is changed.
C29_Witness ==
    /\ pc = "done"
    /\ pk = ListV(<<c_id>>)
    /\ chunkA = 1 /\ Len(srcA.rows) = 2
    /\ chunkB = 2 /\ Len(srcB.rows) = 2
    /\ result.summary.changed > 0

-----------------------------------------------------------------------------
(* SpecNull: compare_datasets on rows that hold a null, or the text        *)
(* "NULL", in a column that may be the key.                                *)

NullRows ==
    {<<IntV(1), Null>>, <<IntV(1), StrV(NULL)>>, <<IntV(1), Bob>>,
     <<IntV(2), Null>>}

NullDatasets == [cols : {Cols}, rows : SeqsUpTo(NullRows, MaxRows)]

InitNull ==
    /\ pc = "scanA"
    /\ srcA \in NullDatasets
    /\ srcB \in NullDatasets
    /\ pk \in {None, ListV(<<c_id>>), ListV(<<c_name>>)}
    /\ chunkA \in ChunkSizes
    /\ chunkB \in ChunkSizes
    /\ scan = [st |-> ScanStart(pk), todo |-> iter_slices(srcA, chunkA)]
    /\ maps = NoMaps
    /\ result = None
    /\ row = None /\ digest = None
    /\ JobIdle /\ UnitIdle

SpecNull == InitNull /\ [][NextRecon]_vars

\* Two cells are the same, or one is null and the other the text "NULL".
SameButNull(x, y) ==
    \/ x.t = y.t /\ x = y
    \/ x.t = "null" /\ y.t = "str" /\ y.v = NULL
    \/ y.t = "null" /\ x.t = "str" /\ x.v = NULL

\* Two rows of the same columns that differ, if at all, in null versus
\* "NULL".
AlikeButNull(ra, rb) ==
    /\ RowKeys(ra) = RowKeys(rb)
    /\ \A i \in DOMAIN ra : SameButNull(ra[i][2], rb[i][2])

\* C30: a row of A and a row of B that differ only in null versus the text
\* "NULL" have the same digest, the same key under an explicit key, and no
\* key that the maps hold for them is classified as changed.
C30_NullAndItsSentinelCollide ==
    pc = "done" =>
        \A ra \in Range(to_dicts(srcA)), rb \in Range(to_dicts(srcB)) :
            AlikeButNull(ra, rb) =>
                /\ make_row_hash(ra) = make_row_hash(rb)
                /\ pk # None => pk_val(ra, pk) = pk_val(rb, pk)
                /\ \A k \in Range(result.lists.changed) :
                      ~(/\ maps.a.mapping[k] = make_row_hash(ra)
                        /\ maps.b.mapping[k] = make_row_hash(rb))

\* A holds a null where B holds "NULL", in the key column: the two rows
\* share the key "NULL" and nothing is missing, extra or changed.
C30_Witness ==
    /\ pc = "done"
    /\ pk = ListV(<<c_name>>)
    /\ srcA.rows = <<<<IntV(1), Null>>>>
    /\ srcB.rows = <<<<IntV(1), StrV(NULL)>>>>
    /\ DOMAIN maps.a.mapping = {NULL}
    /\ DOMAIN maps.b.mapping = {NULL}
    /\ result.summary.missing_in_b = 0
    /\ result.summary.extra_in_b = 0
    /\ result.summary.changed = 0

====
